---- MODULE Spec2Model ----
(***************************************************************************)
(* Model of the anonimizador pipeline: span tokenizer, chunk planner,      *)
(* retrying LM Studio client, per-chunk processor and chunk merger.        *)
(* Texts are sequences of one-character strings; offsets are 0-based as in *)
(* the Python source, so text[a:b] is SubSeq(text, a + 1, b).              *)
(***************************************************************************)
EXTENDS Integers, Sequences, FiniteSets, TLC

\* ------------------------------------------------------------------ bounds
MaxTextLen == 4
MaxTokens == 3
MergeDocTokens == 3
MaxMergeChunks == 3
MaxRetries == 2
MaxBackoff == 2

MaxItems == 2

MaxOrigPieces == 2

MaxFinalPieces == 2

MaxContextLen == 1

MaxSegmentLen == 2
MaxPhrases == 2
MaxMaskPhrases == 2
MaxSplitPrompt == 3
MaxSplitOverlap == 2
MaxSplitChunks == 5
MaxUploads == 2
MaxClock == 3
MaxRequests == 3
MaxStarts == 3
MaxRunTextLen == 3
MaxRunContext == 2

\* ------------------------------------------------------------- characters
Chars == {"a", "b", " "}

\* \s of the regular expression TOKEN_PATTERN; every other character is \S
IsSpace(c) == c = " "

Min(a, b) == IF a < b THEN a ELSE b

Max(a, b) == IF a > b THEN a ELSE b

\* Python's text[a:b] for 0 <= a <= b <= len(text)
Slice(text, a, b) == SubSeq(text, a + 1, b)

\* Python's int() of the rational n / d (d > 0): truncation toward zero
TruncDiv(n, d) == IF n >= 0 THEN n \div d ELSE 0 - ((0 - n) \div d)

\* Python's "".join(parts)
RECURSIVE Concat(_)
Concat(parts) == IF Len(parts) = 0 THEN <<>> ELSE Head(parts) \o Concat(Tail(parts))

RECURSIVE SeqsUpTo(_, _)
SeqsUpTo(S, n) ==
    IF n = 0 THEN {<<>>}
    ELSE LET shorter == SeqsUpTo(S, n - 1)
         IN  shorter \cup {Append(s, c) : s \in {t \in shorter : Len(t) = n - 1}, c \in S}

Texts == SeqsUpTo(Chars, MaxTextLen)

\* ------------------------------------------------- TOKEN_PATTERN = \S+\s*
\* index (0-based) of the first non-space character at or after i, Len(text) if none
RECURSIVE FirstNonSpace(_, _)
FirstNonSpace(text, i) ==
    IF i >= Len(text) THEN Len(text)
    ELSE IF ~IsSpace(text[i + 1]) THEN i
    ELSE FirstNonSpace(text, i + 1)

\* index of the first space character at or after i, Len(text) if none
RECURSIVE FirstSpace(_, _)
FirstSpace(text, i) ==
    IF i >= Len(text) THEN Len(text)
    ELSE IF IsSpace(text[i + 1]) THEN i
    ELSE FirstSpace(text, i + 1)

\* match.end() of the greedy match \S+\s* that starts at mstart
MatchEnd(text, mstart) == FirstNonSpace(text, FirstSpace(text, mstart))

\* ------------------------------------------------- tokenize_with_spans
TokenSpan(token, start, end) == [token |-> token, start |-> start, end |-> end]

\* lines 317-319: whitespace before the match becomes a span of its own
\* (variant that loses the whitespace before a match)
LeadingGapDropped(text, cursor, mstart, spans) == spans

LeadingGap(text, cursor, mstart, spans) ==
    IF mstart > cursor
    THEN Append(spans, TokenSpan(Slice(text, cursor, mstart), cursor, mstart))
    ELSE spans

\* lines 323-324: what is left after the last match becomes the last span
\* (variant that loses what follows the last match)
TrailingRestDropped(text, cursor, spans) == spans

TrailingRest(text, cursor, spans) ==
    IF cursor < Len(text)
    THEN Append(spans, TokenSpan(Slice(text, cursor, Len(text)), cursor, Len(text)))
    ELSE spans

\* the finditer loop: the next match is searched from the end of the previous one
RECURSIVE SpanLoop(_, _, _)
SpanLoop(text, cursor, spans) ==
    LET mstart == FirstNonSpace(text, cursor)
    IN  IF mstart >= Len(text)
        THEN TrailingRest(text, cursor, spans)
        ELSE LET mend == MatchEnd(text, mstart)
                 withGap == LeadingGap(text, cursor, mstart, spans)
             IN  SpanLoop(text, mend,
                          Append(withGap, TokenSpan(Slice(text, mstart, mend), mstart, mend)))

tokenize_with_spans(text) == SpanLoop(text, 0, <<>>)

\* ------------------------------------------------- _simple_tokenize
Token(txt, start, end) == [text |-> txt, start |-> start, end |-> end]

SimpleTrailingRest(text, cursor, tokens) ==
    IF cursor < Len(text)
    THEN Append(tokens, Token(Slice(text, cursor, Len(text)), cursor, Len(text)))
    ELSE tokens

RECURSIVE SimpleLoop(_, _, _)
SimpleLoop(text, cursor, tokens) ==
    LET mstart == FirstNonSpace(text, cursor)
    IN  IF mstart >= Len(text)
        THEN SimpleTrailingRest(text, cursor, tokens)
        ELSE LET mend == MatchEnd(text, mstart)
                 withGap == IF mstart > cursor
                            THEN Append(tokens, Token(Slice(text, cursor, mstart), cursor, mstart))
                            ELSE tokens
             IN  SimpleLoop(text, mend,
                            Append(withGap, Token(Slice(text, mstart, mend), mstart, mend)))

simple_tokenize(text) == SimpleLoop(text, 0, <<>>)

\* ------------------------------------------------- build_chunks
\* safety_factor is a float in the source; the model draws it from rationals
\* <<numerator, denominator>> that binary floating point represents exactly
SafetyFactors == {<<1, 4>>, <<1, 2>>, <<3, 4>>, <<1, 1>>, <<0, 1>>, <<0 - 1, 2>>, <<3, 2>>}

ValidSafetyFactor(sf) == sf[1] > 0 /\ sf[1] <= sf[2]

Chunk(index, total, txt, char_start, char_end, token_start, token_end) ==
    [index |-> index, total |-> total, text |-> txt,
     char_start |-> char_start, char_end |-> char_end,
     token_start |-> token_start, token_end |-> token_end]

\* line 333: effective_chunk_tokens = max(1, int(max_tokens * safety_factor))
\* (variant without the minimum of 1)
EffectiveChunkTokensUnclamped(max_tokens, sf) == TruncDiv(max_tokens * sf[1], sf[2])

EffectiveChunkTokens(max_tokens, sf) == Max(1, TruncDiv(max_tokens * sf[1], sf[2]))

\* lines 118-121: ensure_positive raises when value <= 0
ensure_positive_raises(value) == value <= 0

\* line 344: token_end = min(token_start + effective_chunk_tokens, total_tokens)
WindowEnd(token_start, effective, total_tokens) ==
    Min(token_start + effective, total_tokens)

\* lines 345-347: char_end = token_spans[token_start:token_end][-1].end; the slice
\* stops at the end of the list when token_end lies beyond it
\* (variant that ends the window where its last span starts)
WindowCharEndShort(token_spans, token_end) ==
    token_spans[Min(token_end, Len(token_spans))].start

WindowCharEnd(token_spans, token_end) ==
    token_spans[Min(token_end, Len(token_spans))].end

\* line 365: the window start advances to the cut point
\* (variant that steps over one span)
NextTokenStartSkipping(token_end) == token_end + 1

NextTokenStart(token_end) == token_end

\* lines 343-367: the windowing loop; total is still 0 on every chunk
RECURSIVE ChunkLoop(_, _, _, _, _, _)
ChunkLoop(text, token_spans, effective, token_start, chunk_index, chunks) ==
    LET total_tokens == Len(token_spans)
    IN  IF ~(token_start < total_tokens)
        THEN chunks
        ELSE LET token_end == WindowEnd(token_start, effective, total_tokens)
                 char_start == token_spans[token_start + 1].start
                 char_end == WindowCharEnd(token_spans, token_end)
                 added == Append(chunks,
                                 Chunk(chunk_index, 0, Slice(text, char_start, char_end),
                                       char_start, char_end, token_start, token_end))
             IN  IF token_end >= total_tokens
                 THEN added
                 ELSE ChunkLoop(text, token_spans, effective,
                                NextTokenStart(token_end), chunk_index + 1, added)

\* lines 369-371: total is back-filled onto every chunk
BackFillTotal(chunks) == [i \in 1..Len(chunks) |-> [chunks[i] EXCEPT !.total = Len(chunks)]]

\* lines 387-391: TRUE when some chunk starts beyond the running coverage frontier
RECURSIVE GapFrom(_, _, _)
GapFrom(chunks, i, previous_end) ==
    IF i > Len(chunks) THEN FALSE
    ELSE IF chunks[i].token_start > previous_end THEN TRUE
    ELSE GapFrom(chunks, i + 1, Max(previous_end, chunks[i].token_end))

\* lines 377-391: the ValueError validate_chunk_sequence raises, "none" when it returns
validate_chunk_sequence(chunks, total_tokens) ==
    IF Len(chunks) = 0 THEN "no_chunks"
    ELSE IF chunks[1].token_start # 0 THEN "first_not_at_start"
    ELSE IF chunks[Len(chunks)].token_end # total_tokens THEN "last_not_at_end"
    ELSE IF GapFrom(chunks, 1, 0) THEN "gap"
    ELSE "none"

\* lines 329-374: err names the ValueError raised ("none": the chunks are returned)
build_chunks(text, max_tokens, overlap_tokens, safety_factor) ==
    LET token_spans == tokenize_with_spans(text)
        total_tokens == Len(token_spans)
        effective == EffectiveChunkTokens(max_tokens, safety_factor)
    IN  IF overlap_tokens > 0 THEN [err |-> "overlap", chunks |-> <<>>]
        ELSE IF ensure_positive_raises(effective) THEN [err |-> "not_positive", chunks |-> <<>>]
        ELSE LET chunks == BackFillTotal(ChunkLoop(text, token_spans, effective, 0, 1, <<>>))
                 verdict == validate_chunk_sequence(chunks, total_tokens)
             IN  [err |-> verdict, chunks |-> IF verdict = "none" THEN chunks ELSE <<>>]

\* ------------------------------------------------- merge_chunks
\* line 541: the range [start, end) overlaps a range already covered
\* (variant that looks at the last covered range only)
OverlapsLastCovered(start, end, covered_ranges) ==
    /\ Len(covered_ranges) > 0
    /\ ~(end <= covered_ranges[Len(covered_ranges)][1]
         \/ start >= covered_ranges[Len(covered_ranges)][2])

OverlapsCovered(start, end, covered_ranges) ==
    \E r \in 1..Len(covered_ranges) :
        ~(end <= covered_ranges[r][1] \/ start >= covered_ranges[r][2])

\* line 545: processed if processed else chunk.text
\* (variant without the fallback to chunk.text)
MergedPartNoFallback(chunk, processed) == processed

MergedPart(chunk, processed) == IF Len(processed) > 0 THEN processed ELSE chunk.text

\* lines 534-545: the loop over zip(chunks, processed_chunks) and its locals;
\* accepted records the positions whose part was appended
RECURSIVE MergeLoop(_, _, _, _)
MergeLoop(chunks, processed_chunks, i, locals) ==
    IF i > Min(Len(chunks), Len(processed_chunks)) THEN locals
    ELSE LET start == chunks[i].char_start
             end == chunks[i].char_end
         IN  IF OverlapsCovered(start, end, locals.covered_ranges)
             THEN MergeLoop(chunks, processed_chunks, i + 1, locals)
             ELSE MergeLoop(chunks, processed_chunks, i + 1,
                      [covered_ranges |-> Append(locals.covered_ranges, <<start, end>>),
                       merged_parts |-> Append(locals.merged_parts,
                                               MergedPart(chunks[i], processed_chunks[i])),
                       accepted |-> Append(locals.accepted, i)])

NoMergeLocals == [covered_ranges |-> <<>>, merged_parts |-> <<>>, accepted |-> <<>>]

\* lines 530-547: the returned string, with the locals at the return
merge_chunks(chunks, processed_chunks) ==
    IF Len(chunks) = 0 \/ Len(processed_chunks) = 0
    THEN [result |-> <<>>, locals |-> NoMergeLocals]
    ELSE LET locals == MergeLoop(chunks, processed_chunks, 1, NoMergeLocals)
         IN  [result |-> Concat(locals.merged_parts), locals |-> locals]

\* the chunk lists merge_chunks is given here: any windows of the spans of one
\* document, in any order, repeated or overlapping (a defective planner's output)
Letters == <<"a", "b", "c", "d", "e", "f">>

MergeDoc == Concat([k \in 1..MergeDocTokens |-> <<Letters[k], " ">>])

MergeWindows == {w \in (0..MergeDocTokens) \X (0..MergeDocTokens) : w[1] < w[2]}

WindowChunk(index, total, w) ==
    LET token_spans == tokenize_with_spans(MergeDoc)
        char_start == token_spans[w[1] + 1].start
        char_end == WindowCharEnd(token_spans, w[2])
    IN  Chunk(index, total, Slice(MergeDoc, char_start, char_end),
              char_start, char_end, w[1], w[2])

MergeChunkLists ==
    UNION {{[i \in 1..n |-> WindowChunk(i, n, ws[i])] : ws \in [1..n -> MergeWindows]} :
           n \in 0..MaxMergeChunks}

\* a processed result: empty (the chunk failed) or the transformed text
ProcessedTexts == {<<>>, <<"#">>}

\* ------------------------------------------------- LMStudioClient.generate
\* what one POST to /chat/completions can come back with
GenContents == {<<>>, <<" ">>, <<"a">>, <<" ", "a", " ">>}

Responses ==
    {[kind |-> k, content |-> <<>>] :
        k \in {"transport_failure", "error_status", "invalid_json", "body_not_object",
               "no_choices", "choice_not_object", "no_content", "content_null",
               "content_not_string"}}
    \cup {[kind |-> "content", content |-> c] : c \in GenContents}

Exc(type, at) == [type |-> type, at |-> at]

NoExc == Exc("None", 0 - 1)

\* Python's str.strip(): leading and trailing whitespace removed
RECURSIVE LStrip(_)
LStrip(t) == IF Len(t) > 0 /\ IsSpace(Head(t)) THEN LStrip(Tail(t)) ELSE t

RECURSIVE RStrip(_)
RStrip(t) == IF Len(t) > 0 /\ IsSpace(t[Len(t)]) THEN RStrip(SubSeq(t, 1, Len(t) - 1)) ELSE t

Strip(t) == RStrip(LStrip(t))

\* line 242: if content and content.strip()
\* (variant without the strip: if content)
ContentAcceptedUnstripped(content) == Len(content) > 0

ContentAccepted(content) == Len(content) > 0 /\ Len(Strip(content)) > 0

\* lines 229-244: the try body on one response, at loop index attempt:
\* the content returned, or the exception raised (by its class)
TryBody(resp, attempt) ==
    CASE resp.kind = "transport_failure" -> [ret |-> FALSE, content |-> <<>>, exc |-> Exc("RequestException", attempt)]
      [] resp.kind = "error_status" -> [ret |-> FALSE, content |-> <<>>, exc |-> Exc("RequestException", attempt)]
      [] resp.kind = "invalid_json" -> [ret |-> FALSE, content |-> <<>>, exc |-> Exc("ValueError", attempt)]
      [] resp.kind = "body_not_object" -> [ret |-> FALSE, content |-> <<>>, exc |-> Exc("AttributeError", attempt)]
      [] resp.kind = "no_choices" -> [ret |-> FALSE, content |-> <<>>, exc |-> Exc("ValueError", attempt)]
      [] resp.kind = "choice_not_object" -> [ret |-> FALSE, content |-> <<>>, exc |-> Exc("TypeError", attempt)]
      [] resp.kind = "no_content" -> [ret |-> FALSE, content |-> <<>>, exc |-> Exc("KeyError", attempt)]
      [] resp.kind = "content_null" -> [ret |-> FALSE, content |-> <<>>, exc |-> Exc("ValueError", attempt)]
      [] resp.kind = "content_not_string" -> [ret |-> FALSE, content |-> <<>>, exc |-> Exc("AttributeError", attempt)]
      [] resp.kind = "content" ->
            IF ContentAccepted(resp.content)
            THEN [ret |-> TRUE, content |-> resp.content, exc |-> NoExc]
            ELSE [ret |-> FALSE, content |-> <<>>, exc |-> Exc("ValueError", attempt)]

\* line 246: except (requests.RequestException, ValueError, KeyError)
CaughtTypes == {"RequestException", "ValueError", "KeyError"}

\* line 248: if attempt < self.max_retries
RetriesLeft(attempt, retries) == attempt < retries

\* line 249: wait_time = self.backoff_seconds * (attempt + 1)
\* (variant that multiplies by the loop index)
WaitTimeFromZero(backoff, attempt) == backoff * attempt

WaitTime(backoff, attempt) == backoff * (attempt + 1)

GenPending == [kind |-> "pending", content |-> <<>>, exc |-> NoExc, cause |-> NoExc]

\* ------------------------------------------------- process_chunks
\* the chunk lists process_chunks is given: what build_chunks returns for a text
\* with some non-whitespace in it (run_anonymization rejects any other text)
ProcTexts == {t \in SeqsUpTo({"a", " "}, MaxTextLen) : \E i \in 1..Len(t) : ~IsSpace(t[i])}

\* line 283 (max_chars: int = 120) and line 467 (response[:120])
PreviewChars == 120

\* lines 283-285 and 467, 481: the first max_chars characters, newlines replaced by
\* spaces, stripped, and "..." after them when the text is longer
Preview(t, max_chars) ==
    LET head == SubSeq(t, 1, Min(Len(t), max_chars))
        spaced == [i \in 1..Len(head) |-> IF head[i] = "\n" THEN " " ELSE head[i]]
    IN  Strip(spaced) \o (IF Len(t) > max_chars THEN <<".", ".", ".">> ELSE <<>>)

\* a text of one token that is longer than a preview, and the plan build_chunks
\* makes of it: one chunk with the whole text
LongText == [i \in 1..(PreviewChars + 1) |-> "a"]

LongChunkList == <<Chunk(1, 1, LongText, 0, Len(LongText), 0, 1)>>

ProcChunkLists ==
    {build_chunks(t, m, 0, <<1, 1>>).chunks : t \in ProcTexts, m \in 1..MaxTokens}
        \cup {LongChunkList}

\* token occurs in t at the 0-based position p
StartsWithAt(t, token, p) ==
    p + Len(token) <= Len(t) /\ SubSeq(t, p + 1, p + Len(token)) = token

\* t[p:].replace(token, by): the occurrences are found from left to right and do
\* not overlap
RECURSIVE ReplaceWith(_, _, _, _)
ReplaceWith(t, token, by, p) ==
    LET hits == {q \in p..(Len(t) - Len(token)) : StartsWithAt(t, token, q)}
    IN  IF hits = {} THEN Slice(t, p, Len(t))
        ELSE LET q == CHOOSE h \in hits : \A other \in hits : h <= other
             IN  Slice(t, p, q) \o by \o ReplaceWith(t, token, by, q + Len(token))

\* lines 418-419: the example of SYSTEM_PROMPT, original and anonymized
ScenarioDoc ==
    <<"J", "u", "a", "n", " ", "P", "é", "r", "e", "z", ",", " ", "D", "N", "I", " ",
      "3", "0", ".", "1", "2", "3", ".", "4", "5", "6", ",", " ", "v", "i", "v", "e",
      " ", "e", "n", " ", "A", "v", ".", " ", "S", "i", "e", "m", "p", "r", "e", " ",
      "V", "i", "v", "a", " ", "7", "4", "2", ".">>

ScenarioFinal ==
    <<"[", "N", "O", "M", "B", "R", "E", " ", "A", "P", "E", "L", "L", "I", "D", "O",
      "]", ",", " ", "[", "D", "O", "C", "U", "M", "E", "N", "T", "O", "]", ",", " ",
      "v", "i", "v", "e", " ", "e", "n", " ", "[", "D", "O", "M", "I", "C", "I", "L",
      "I", "O", "]", ".">>

\* the replacements that turn the example's original into its anonymized form
ExpectedSubstitutions ==
    <<<<<<"J", "u", "a", "n", " ", "P", "é", "r", "e", "z">>,
        <<"[", "N", "O", "M", "B", "R", "E", " ", "A", "P", "E", "L", "L", "I", "D", "O", "]">>>>,
      <<<<"D", "N", "I", " ", "3", "0", ".", "1", "2", "3", ".", "4", "5", "6">>,
        <<"[", "D", "O", "C", "U", "M", "E", "N", "T", "O", "]">>>>,
      <<<<"A", "v", ".", " ", "S", "i", "e", "m", "p", "r", "e", " ", "V", "i", "v", "a", " ", "7", "4", "2">>,
        <<"[", "D", "O", "M", "I", "C", "I", "L", "I", "O", "]">>>>>>

\* a transformer that makes exactly the replacements of the example, and returns
\* any other text as it is (rule 6 of SYSTEM_PROMPT)
RECURSIVE StubFrom(_, _)
StubFrom(t, k) ==
    IF k > Len(ExpectedSubstitutions) THEN t
    ELSE StubFrom(ReplaceWith(t, ExpectedSubstitutions[k][1], ExpectedSubstitutions[k][2], 0),
                  k + 1)

StubTransform(t) == StubFrom(t, 1)

\* how client.generate(SYSTEM_PROMPT, user_prompt) ends for one chunk: it returns a
\* text with a non-whitespace character (a rewritten text, or the chunk unchanged),
\* or it raises
GenerateOutcomes(chunk) ==
    {[ret |-> TRUE, response |-> r, exc |-> "None"] :
        r \in {<<"#">>, chunk.text, StubTransform(chunk.text)}}
    \cup {[ret |-> FALSE, response |-> <<>>, exc |-> e] : e \in {"RuntimeError", "AttributeError"}}

\* line 434-435: build_user_prompt
build_user_prompt(chunk) == chunk.text

\* line 445: results = [""] * len(chunks)
EmptyResults(chunks) == [i \in 1..Len(chunks) |-> <<>>]

\* line 516: if abort_on_failure
\* (variant that raises whatever the setting)
RaisesOnFailureAlways(abort) == TRUE

\* (variant that never raises)
RaisesOnFailureNever(abort) == FALSE

RaisesOnFailure(abort) == abort

\* line 515: failed_chunks.append(chunk.index)
\* (variant that forgets the failed chunk)
RecordFailureDropped(failed, index) == failed

RecordFailure(failed, index) == Append(failed, index)

\* lines 475 and 507: round(len(response) / len(chunk.text), 4) as the pair of the
\* two lengths, and None as the empty tuple
LengthRatio(chunk, response) ==
    IF Len(chunk.text) > 0 THEN <<Len(response), Len(chunk.text)>> ELSE <<>>

\* lines 469-483 and 501-514: the record log_chunk is given for a chunk
ChunkEntry(chunk, response, status) ==
    IF status = "ok"
    THEN [chunk_index |-> chunk.index, total_chunks |-> chunk.total,
          char_length |-> Len(chunk.text), output_char_length |-> Len(response),
          char_delta |-> Len(response) - Len(chunk.text),
          length_ratio |-> LengthRatio(chunk, response),
          token_length |-> chunk.token_end - chunk.token_start,
          duration_seconds |-> "elapsed", status |-> status,
          input_preview |-> Preview(chunk.text, PreviewChars),
          output_preview |-> Preview(response, PreviewChars)]
    ELSE [chunk_index |-> chunk.index, total_chunks |-> chunk.total,
          char_length |-> Len(chunk.text), output_char_length |-> Len(response),
          char_delta |-> Len(response) - Len(chunk.text),
          length_ratio |-> LengthRatio(chunk, response),
          token_length |-> chunk.token_end - chunk.token_start,
          duration_seconds |-> "elapsed", status |-> status,
          error_message |-> "str(exc)"]

\* lines 486-494: the record of debug mode
DebugEntry(chunk, response) ==
    [chunk_index |-> chunk.index, total_chunks |-> chunk.total, status |-> "debug",
     raw_input |-> chunk.text, raw_output |-> response]

\* lines 451-452, 517-518, 521-522: if progress_callback: progress_callback(done, total)
\* (variant without the notification of a completed count of 0)
NotifySkipZero(callback, notifications, done, total) ==
    IF callback /\ done > 0 THEN Append(notifications, <<done, total>>) ELSE notifications

Notify(callback, notifications, done, total) ==
    IF callback THEN Append(notifications, <<done, total>>) ELSE notifications

\* ------------------------------------------------------------------ validation
\* lines 424-431
PLACEHOLDER_TOKENS ==
    <<<<"[", "N", "O", "M", "B", "R", "E", " ", "A", "P", "E", "L", "L", "I", "D", "O", "]">>,
      <<"[", "D", "O", "M", "I", "C", "I", "L", "I", "O", "]">>,
      <<"[", "D", "O", "C", "U", "M", "E", "N", "T", "O", "]">>,
      <<"[", "T", "E", "L", "E", "F", "O", "N", "O", "]">>,
      <<"[", "E", "M", "A", "I", "L", "]">>,
      <<"[", "C", "U", "E", "N", "T", "A", " ", "B", "A", "N", "C", "A", "R", "I", "A", "]">>>>

\* line 590: max_items: int = 10
DefaultMaxItems == 10

SetMax(S) == CHOOSE x \in S : \A y \in S : y <= x

SetMin(S) == CHOOSE x \in S : \A y \in S : x <= y

\* token in t
Occurs(token, t) == \E p \in 0..(Len(t) - Len(token)) : StartsWithAt(t, token, p)

\* t[p:].replace(token, ""): the occurrences are found from left to right and do
\* not overlap
RECURSIVE ReplaceFrom(_, _, _)
ReplaceFrom(t, token, p) ==
    IF p >= Len(t) THEN <<>>
    ELSE IF StartsWithAt(t, token, p) THEN ReplaceFrom(t, token, p + Len(token))
    ELSE <<t[p + 1]>> \o ReplaceFrom(t, token, p + 1)

\* lines 577-580: the loop of remove_placeholders from the k-th token on
RECURSIVE RemoveFromToken(_, _)
RemoveFromToken(cleaned, k) ==
    IF k > Len(PLACEHOLDER_TOKENS) THEN cleaned
    ELSE RemoveFromToken(ReplaceFrom(cleaned, PLACEHOLDER_TOKENS[k], 0), k + 1)

\* lines 576-580
remove_placeholders(t) == RemoveFromToken(t, 1)

\* lines 583-584
contains_placeholder(t) ==
    \E k \in 1..Len(PLACEHOLDER_TOKENS) : Occurs(PLACEHOLDER_TOKENS[k], t)

\* line 592, difflib.SequenceMatcher(None, a, b) for len(b) < 200 (no junk, no
\* popular elements): the length of the common run of a from i and b from j, inside
\* a[..ahi] and b[..bhi]
RECURSIVE CommonRun(_, _, _, _, _, _)
CommonRun(a, b, i, j, ahi, bhi) ==
    IF i < ahi /\ j < bhi /\ a[i + 1] = b[j + 1]
    THEN 1 + CommonRun(a, b, i + 1, j + 1, ahi, bhi)
    ELSE 0

\* SequenceMatcher.find_longest_match: the longest block common to a[alo:ahi] and
\* b[blo:bhi]; of the longest ones that which starts earliest in a, and of those
\* that which starts earliest in b; (alo, blo, 0) when nothing is common
find_longest_match(a, b, alo, ahi, blo, bhi) ==
    LET runs == [i \in alo..(ahi - 1) |->
                    [j \in blo..(bhi - 1) |-> CommonRun(a, b, i, j, ahi, bhi)]]
        sizes == {runs[i][j] : i \in alo..(ahi - 1), j \in blo..(bhi - 1)}
        bestsize == IF sizes = {} THEN 0 ELSE SetMax(sizes)
        besti == SetMin({i \in alo..(ahi - 1) :
                            \E j \in blo..(bhi - 1) : runs[i][j] = bestsize})
        bestj == SetMin({j \in blo..(bhi - 1) : runs[besti][j] = bestsize})
    IN  IF bestsize = 0 THEN [i |-> alo, j |-> blo, size |-> 0]
        ELSE [i |-> besti, j |-> bestj, size |-> bestsize]

\* SequenceMatcher.get_matching_blocks: the longest block, then the blocks to its
\* left and to its right, in increasing order
RECURSIVE MatchingBlocks(_, _, _, _, _, _)
MatchingBlocks(a, b, alo, ahi, blo, bhi) ==
    IF alo >= ahi \/ blo >= bhi THEN <<>>
    ELSE LET m == find_longest_match(a, b, alo, ahi, blo, bhi)
         IN  IF m.size = 0 THEN <<>>
             ELSE MatchingBlocks(a, b, alo, m.i, blo, m.j)
                  \o <<m>>
                  \o MatchingBlocks(a, b, m.i + m.size, ahi, m.j + m.size, bhi)

\* get_matching_blocks joins the blocks that are adjacent in a and in b
RECURSIVE MergeAdjacent(_)
MergeAdjacent(blocks) ==
    IF Len(blocks) < 2 THEN blocks
    ELSE LET f == blocks[1]
             g == blocks[2]
         IN  IF f.i + f.size = g.i /\ f.j + f.size = g.j
             THEN MergeAdjacent(<<[i |-> f.i, j |-> f.j, size |-> f.size + g.size]>>
                                \o SubSeq(blocks, 3, Len(blocks)))
             ELSE <<f>> \o MergeAdjacent(Tail(blocks))

\* get_matching_blocks ends the list with the block (len(a), len(b), 0)
get_matching_blocks(a, b) ==
    Append(MergeAdjacent(MatchingBlocks(a, b, 0, Len(a), 0, Len(b))),
           [i |-> Len(a), j |-> Len(b), size |-> 0])

Opcode(tag, i1, i2, j1, j2) == [tag |-> tag, i1 |-> i1, i2 |-> i2, j1 |-> j1, j2 |-> j2]

\* SequenceMatcher.get_opcodes: what lies between two matching blocks is a replace,
\* a delete or an insert, and each block of positive size is an equal
RECURSIVE OpcodesFrom(_, _, _, _)
OpcodesFrom(blocks, k, i, j) ==
    IF k > Len(blocks) THEN <<>>
    ELSE LET ai == blocks[k].i
             bj == blocks[k].j
             size == blocks[k].size
             tag == IF i < ai /\ j < bj THEN "replace"
                    ELSE IF i < ai THEN "delete"
                    ELSE IF j < bj THEN "insert"
                    ELSE ""
         IN  (IF tag # "" THEN <<Opcode(tag, i, ai, j, bj)>> ELSE <<>>)
             \o (IF size > 0 THEN <<Opcode("equal", ai, ai + size, bj, bj + size)>>
                 ELSE <<>>)
             \o OpcodesFrom(blocks, k + 1, ai + size, bj + size)

\* line 595: matcher.get_opcodes()
get_opcodes(a, b) == OpcodesFrom(get_matching_blocks(a, b), 1, 0, 0)

\* lines 596-611: the opcode is passed over (continue)
Skipped(op, original_text, anonymized_text) ==
    LET original_segment == Slice(original_text, op.i1, op.i2)
        anonymized_segment == Slice(anonymized_text, op.j1, op.j2)
    IN  \/ op.tag = "equal"
        \/ Len(Strip(original_segment)) = 0 /\ Len(Strip(anonymized_segment)) = 0
        \/ /\ op.tag \in {"replace", "insert"}
           /\ contains_placeholder(anonymized_segment)
           /\ Len(Strip(remove_placeholders(anonymized_segment))) = 0
        \/ op.tag = "delete" /\ Len(Strip(original_segment)) = 0

\* lines 613-619: the record appended to suspicious
SuspiciousRecord(op, original_text, anonymized_text) ==
    [type |-> op.tag,
     original |-> Strip(Slice(original_text, op.i1, op.i2)),
     anon |-> Strip(Slice(anonymized_text, op.j1, op.j2))]

\* line 621: if len(suspicious) >= max_items
CapReached(n, max_items) == n >= max_items

\* lines 595-624: the loop over the opcodes from the k-th on; scanned is the number
\* of opcodes the loop has looked at when it ends
RECURSIVE ScanOpcodes(_, _, _, _, _, _)
ScanOpcodes(opcodes, k, suspicious, original_text, anonymized_text, max_items) ==
    IF k > Len(opcodes)
    THEN [opcodes |-> opcodes, suspicious |-> suspicious, scanned |-> Len(opcodes)]
    ELSE IF Skipped(opcodes[k], original_text, anonymized_text)
    THEN ScanOpcodes(opcodes, k + 1, suspicious, original_text, anonymized_text, max_items)
    ELSE LET appended == Append(suspicious,
                                SuspiciousRecord(opcodes[k], original_text, anonymized_text))
         IN  IF CapReached(Len(appended), max_items)
             THEN [opcodes |-> opcodes, suspicious |-> appended, scanned |-> k]
             ELSE ScanOpcodes(opcodes, k + 1, appended, original_text, anonymized_text,
                              max_items)

\* lines 587-624
detect_suspicious_edits(original_text, anonymized_text, max_items) ==
    ScanOpcodes(get_opcodes(original_text, anonymized_text), 1, <<>>,
                original_text, anonymized_text, max_items)

NotDetected == [opcodes |-> <<>>, suspicious |-> <<>>, scanned |-> 0]

\* lines 737-753: summary["validation"], and the count the console line gives
ValidationOf(suspicious_edits) ==
    IF Len(suspicious_edits) > 0
    THEN [status |-> "warn", issues |-> suspicious_edits, logged |-> Len(suspicious_edits)]
    ELSE [status |-> "ok", issues |-> <<>>, logged |-> 0]

\* line 660: summary["validation"] before the validation
PendingValidation == [status |-> "pending", issues |-> <<>>, logged |-> 0]

\* the texts made of at most n pieces of P
RECURSIVE PieceTexts(_, _)
PieceTexts(P, n) ==
    IF n = 0 THEN {<<>>}
    ELSE LET shorter == PieceTexts(P, n - 1)
         IN  shorter \cup {t \o q : t \in shorter, q \in P}

OrigPieces == {<<"a">>, <<"b">>, <<" ">>}

\* a placeholder written inside another one: [EM[DOMICILIO]AIL]
NestedPlaceholder == <<"[", "E", "M">> \o PLACEHOLDER_TOKENS[2] \o <<"A", "I", "L", "]">>

FinalPieces == {<<"a">>, <<" ">>, PLACEHOLDER_TOKENS[5], NestedPlaceholder}

\* an original document and any final document
PairCases ==
    {[kind |-> "pair", original |-> o, final |-> f] :
        o \in PieceTexts(OrigPieces, MaxOrigPieces),
        f \in PieceTexts(FinalPieces, MaxFinalPieces)}

\* n times the character c, with a space between them
RECURSIVE Spaced(_, _)
Spaced(c, n) == IF n <= 1 THEN <<c>> ELSE <<c, " ">> \o Spaced(c, n - 1)

\* documents with one more difference than the default cap itemizes
LongCases ==
    {[kind |-> "pair", original |-> Spaced("a", DefaultMaxItems + 1),
      final |-> Spaced("b", DefaultMaxItems + 1)]}

Names == {<<"A", "n", "a">>, <<"a", "b">>}

Contexts == SeqsUpTo({"b", " "}, MaxContextLen)

\* a final document that is the original with a name replaced by [NOMBRE APELLIDO]
RedactionCases ==
    {[kind |-> "redaction", original |-> pre \o name \o post,
      final |-> pre \o PLACEHOLDER_TOKENS[1] \o post] :
        pre \in Contexts, name \in Names, post \in Contexts}

DeletedSegments == {t \in SeqsUpTo(Chars, MaxSegmentLen) : Len(Strip(t)) > 0}

\* a final document that is the original without one segment that is not blank
DeletionCases ==
    {[kind |-> "deletion", original |-> pre \o seg \o post, final |-> pre \o post] :
        pre \in Contexts, seg \in DeletedSegments, post \in Contexts}

ValCases == PairCases \cup LongCases \cup RedactionCases \cup DeletionCases

\* ------------------------------------------------------------------ LMStudioClient
\* a dict is a function from its keys; d[key] = value
DictSet(d, key, value) ==
    [x \in (DOMAIN d) \cup {key} |-> IF x = key THEN value ELSE d[x]]

\* d.update(other)
DictUpdate(d, other) ==
    [x \in (DOMAIN d) \cup (DOMAIN other) |-> IF x \in DOMAIN other THEN other[x] ELSE d[x]]

\* d without key, as d.pop(key) leaves it
DictWithout(d, key) == [x \in (DOMAIN d) \ {key} |-> d[x]]

\* the inference parameters a caller can pass: each key is absent or has a value
CallerParams ==
    {[x \in {k \in {"temperature", "top_p", "top_k", "repeat_penalty",
                    "stop_sequences", "stop"} : has[k]} |-> val[x]] :
        has \in [{"temperature", "top_p", "top_k", "repeat_penalty",
                  "stop_sequences", "stop"} -> BOOLEAN],
        val \in {[temperature |-> t, top_p |-> "0.9", top_k |-> 40, repeat_penalty |-> rp,
                  stop_sequences |-> ss, stop |-> <<"y">>] :
                     t \in {"0.0", "0.7"}, rp \in {"1.0", "1.1"}, ss \in {<<>>, <<"x">>}}}

\* line 186: inference_params.copy() is a new dict, the last of the heap
CopyDict(heap, ref) == [heap |-> Append(heap, heap[ref]), ref |-> Len(heap) + 1]

\* lines 187-189
\* (variant that keeps the values the caller gave)
ForceDeterministicDefaulting(params) ==
    DictUpdate([temperature |-> "0.0", top_p |-> "1.0", top_k |-> 1], params)

ForceDeterministic(params) ==
    DictSet(DictSet(DictSet(params, "temperature", "0.0"), "top_p", "1.0"), "top_k", 1)

\* lines 190-191
DefaultRepeatPenalty(params) ==
    IF "repeat_penalty" \notin DOMAIN params THEN DictSet(params, "repeat_penalty", "1.0")
    ELSE params

\* lines 200-211: _chat_payload
chat_payload(model, inference_params, system_prompt, user_prompt) ==
    LET payload == DictUpdate([model |-> model,
                               messages |-> <<[role |-> "system", content |-> system_prompt],
                                              [role |-> "user", content |-> user_prompt]>>],
                              inference_params)
    IN  IF "stop_sequences" \in DOMAIN payload
        THEN DictSet(DictWithout(payload, "stop_sequences"), "stop", payload["stop_sequences"])
        ELSE payload

\* ------------------------------------------------------------------ run_anonymization
\* line 696: overlap_tokens=max(0, chunk_cfg["overlap_tokens"])
ClampOverlap(overlap) == Max(0, overlap)

\* lines 688-698 and 765-779: run_anonymization refuses a text without a readable
\* character, applies ensure_positive to max_context_tokens, and calls build_chunks
\* with the clamped overlap; an exception of any of these ends the run with status
\* "error" before process_chunks is reached
run_build_chunks(text, max_context_tokens, overlap_tokens, safety_factor) ==
    IF Len(Strip(text)) = 0 THEN [err |-> "empty_text", chunks |-> <<>>]
    ELSE IF ensure_positive_raises(max_context_tokens)
         THEN [err |-> "not_positive", chunks |-> <<>>]
         ELSE build_chunks(text, max_context_tokens, ClampOverlap(overlap_tokens),
                           safety_factor)

\* lines 213-221: check_health raises ConnectionError when the one request it makes fails
\* (variant that never raises)
check_health_never_raises(health_ok) == FALSE

check_health_raises(health_ok) == ~health_ok

\* lines 652-663: summary before the try block (run_id, source_file and
\* processing_seconds are left out)
InitialSummary ==
    [output_file |-> "None", diff_report_file |-> "None", total_chunks |-> 0,
     failed_chunks |-> <<>>, status |-> "pending", length_metrics |-> <<>>,
     validation |-> [status |-> "pending", issues |-> <<>>]]

\* lines 553-564: calculate_length_metrics (ratio as the pair of the two lengths,
\* None as the empty tuple)
calculate_length_metrics(original_text, anonymized_text) ==
    [original_length |-> Len(original_text), anonymized_length |-> Len(anonymized_text),
     delta |-> Len(anonymized_text) - Len(original_text),
     ratio |-> IF Len(original_text) > 0
               THEN <<Len(anonymized_text), Len(original_text)>> ELSE <<>>]

\* lines 739 and 752: the dict stored in summary["validation"]
\* (variant that stores status ok whatever was found)
SummaryValidationOk(v) == [status |-> "ok", issues |-> v.issues]

SummaryValidation(v) == [status |-> v.status, issues |-> v.issues]

\* line 778: not summary.get("validation"): the key is absent or its dict is empty
ValidationMissing(s) == "validation" \notin DOMAIN s \/ DOMAIN s["validation"] = {}

\* lines 755-764: summary.update(...) of a completed run
SuccessUpdate(s, chunks, failed) ==
    DictUpdate(s, [output_file |-> "output_file", diff_report_file |-> s["diff_report_file"],
                   total_chunks |-> Len(chunks), failed_chunks |-> failed,
                   status |-> "success"])

\* lines 768-779: summary.update(...) of the except branch, and the validation it
\* sets when there is none
ErrorUpdate(s, chunks, failed, exc) ==
    LET updated == DictUpdate(s, [output_file |-> s["output_file"],
                                  total_chunks |-> Len(chunks), failed_chunks |-> failed,
                                  status |-> "error", error_message |-> exc])
    IN  IF ValidationMissing(updated)
        THEN DictSet(updated, "validation", [status |-> "error", issues |-> <<>>])
        ELSE updated

\* lines 162-169: the dict finalize writes: the chunk entries, then the summary's keys
\* (variant that writes the summary alone)
SummaryWithoutChunks(entries, s) == DictUpdate([chunks |-> <<>>], s)

SummaryWithChunks(entries, s) == DictUpdate([chunks |-> entries], s)

\* the documents a run is given, and its configurations: the service answers the
\* health probe or not, lm_api has its keys or not, the file's extension
RunTexts == SeqsUpTo({"a", " "}, MaxRunTextLen)

\* the values of max_context_tokens the example is planned with: one chunk of its
\* 10 tokens, and two chunks of 5
ScenarioContexts == {6, 12}

RunConfigs ==
    [health_ok : BOOLEAN, lm_keys : BOOLEAN, ext : {".pdf", ".txt"}, doc : RunTexts,
     max_context_tokens : 0..MaxRunContext, overlap_tokens : {0 - 1, 0},
     abort_on_failure : BOOLEAN, debug : BOOLEAN]
    \cup [health_ok : {TRUE}, lm_keys : {TRUE}, ext : {".pdf"}, doc : {ScenarioDoc},
          max_context_tokens : ScenarioContexts, overlap_tokens : {0},
          abort_on_failure : BOOLEAN, debug : {FALSE}]

\* line 697: chunk_cfg.get("safety_factor", 0.85) of a configuration without the key
DefaultSafetyFactor == <<17, 20>>

\* ------------------------------------------------------------------ anonymize_text
\* (src/backend/anonimizador.py)
LowerLetters ==
    <<"a", "b", "c", "d", "e", "f", "g", "h", "i", "j", "k", "l", "m", "n", "o", "p", "q",
      "r", "s", "t", "u", "v", "w", "x", "y", "z", "é">>

UpperLetters ==
    <<"A", "B", "C", "D", "E", "F", "G", "H", "I", "J", "K", "L", "M", "N", "O", "P", "Q",
      "R", "S", "T", "U", "V", "W", "X", "Y", "Z", "É">>

Digits == <<"0", "1", "2", "3", "4", "5", "6", "7", "8", "9">>

\* str.upper() and the case folding of re.IGNORECASE, character by character
UpperChar(c) ==
    IF \E k \in 1..Len(LowerLetters) : LowerLetters[k] = c
    THEN UpperLetters[CHOOSE k \in 1..Len(LowerLetters) : LowerLetters[k] = c]
    ELSE c

LowerChar(c) ==
    IF \E k \in 1..Len(UpperLetters) : UpperLetters[k] = c
    THEN LowerLetters[CHOOSE k \in 1..Len(UpperLetters) : UpperLetters[k] = c]
    ELSE c

Upper(t) == [i \in 1..Len(t) |-> UpperChar(t[i])]

\* \w of the regular expressions
IsWordChar(c) ==
    \/ \E k \in 1..Len(LowerLetters) : c \in {LowerLetters[k], UpperLetters[k]}
    \/ \E k \in 1..Len(Digits) : c = Digits[k]
    \/ c = "_"

\* \b at the 0-based position p of t: a word character on exactly one side
WordBoundary(t, p) ==
    (p > 0 /\ IsWordChar(t[p])) # (p < Len(t) /\ IsWordChar(t[p + 1]))

\* re.escape(original) with re.IGNORECASE (line 249): the characters of original are
\* at p, whatever the case of the letters
PatronMatchesAnywhere(t, original, p) ==
    /\ p + Len(original) <= Len(t)
    /\ \A k \in 1..Len(original) : LowerChar(t[p + k]) = LowerChar(original[k])

\* line 244: \b + re.escape(original) + \b matches at p
PatronMatchesAt(t, original, p) ==
    /\ PatronMatchesAnywhere(t, original, p)
    /\ WordBoundary(t, p)
    /\ WordBoundary(t, p + Len(original))

\* lines 245-250: re.sub(patron, tag, t) from position p on, for a non-empty original:
\* the matches are found from left to right and do not overlap
RECURSIVE ReSubFrom(_, _, _, _)
ReSubFrom(t, original, tag, p) ==
    IF p >= Len(t) THEN <<>>
    ELSE IF PatronMatchesAt(t, original, p)
         THEN tag \o ReSubFrom(t, original, tag, p + Len(original))
         ELSE <<t[p + 1]>> \o ReSubFrom(t, original, tag, p + 1)

re_sub(original, tag, t) == ReSubFrom(t, original, tag, 0)

\* lines 211-215: the tag of a person of the given kind; n is contador[tipo] after
\* its increment
TipoActor == <<"a", "c", "t", "o", "r">>

TipoDemandado == <<"d", "e", "m", "a", "n", "d", "a", "d", "o">>

TipoTestigos == <<"t", "e", "s", "t", "i", "g", "o", "s">>

\* line 211: if tipo in ["actor", "demandado"]
IsMainParty(tipo) == tipo \in {TipoActor, TipoDemandado}

PersonTag(tipo, n) ==
    IF IsMainParty(tipo)
    THEN <<"[">> \o Upper(tipo) \o <<"]">>
    ELSE <<"[">> \o Upper(tipo) \o <<"_", Digits[n + 1], "]">>

\* lines 225-234: placeholders_adicionales.get(categoria, "[REDACTADO]")
AdditionalPlaceholder(categoria) ==
    CASE categoria = "domicilios" -> PLACEHOLDER_TOKENS[2]
      [] categoria = "documentos" -> PLACEHOLDER_TOKENS[3]
      [] categoria = "telefonos" -> PLACEHOLDER_TOKENS[4]
      [] categoria = "emails" -> PLACEHOLDER_TOKENS[5]
      [] categoria = "cuentas_bancarias" -> PLACEHOLDER_TOKENS[6]
      [] OTHER -> <<"[", "R", "E", "D", "A", "C", "T", "A", "D", "O", "]">>

\* a dict in insertion order is a sequence of <<key, value>> pairs
HasKey(d, key) == \E k \in 1..Len(d) : d[k][1] = key

ValueOf(d, key) == d[CHOOSE k \in 1..Len(d) : d[k][1] = key][2]

\* lines 220-221 and 236-237: if key not in mapeo: mapeo[key] = value, for each key
RECURSIVE MapNew(_, _, _)
MapNew(d, keys, value) ==
    IF Len(keys) = 0 THEN d
    ELSE MapNew(IF HasKey(d, Head(keys)) THEN d ELSE Append(d, <<Head(keys), value>>),
                Tail(keys), value)

\* line 218: entities_json.get("variantes", {}).get(persona, [persona])
VariantesOf(variantes, persona) ==
    IF HasKey(variantes, persona) THEN ValueOf(variantes, persona) ELSE <<persona>>

\* lines 209-221: the loop over the persons of one kind; the kinds other than actor
\* and demandado are numbered by contador
RECURSIVE MapPersonas(_, _, _, _, _)
MapPersonas(d, tipo, personas, n, variantes) ==
    IF Len(personas) = 0 THEN [mapeo |-> d, n |-> n]
    ELSE LET m == IF IsMainParty(tipo) THEN n ELSE n + 1
         IN  MapPersonas(MapNew(d, VariantesOf(variantes, Head(personas)), PersonTag(tipo, m)),
                         tipo, Tail(personas), m, variantes)

\* lines 208-221: the loop over the kinds of partes_proceso (each kind has its own
\* counter, which starts at 0)
RECURSIVE MapPartes(_, _, _)
MapPartes(d, partes, variantes) ==
    IF Len(partes) = 0 THEN d
    ELSE MapPartes(MapPersonas(d, Head(partes)[1], Head(partes)[2], 0, variantes).mapeo,
                   Tail(partes), variantes)

\* lines 233-237: the loop over datos_adicionales
RECURSIVE MapDatos(_, _)
MapDatos(d, datos) ==
    IF Len(datos) = 0 THEN d
    ELSE MapDatos(MapNew(d, Head(datos)[2], AdditionalPlaceholder(Head(datos)[1])),
                  Tail(datos))

\* lines 204-237
build_mapeo(entities_json) ==
    MapDatos(MapPartes(<<>>, entities_json.partes_proceso, entities_json.variantes),
             entities_json.datos_adicionales)

\* the keys of d of length n, in insertion order
RECURSIVE KeysOfLen(_, _)
KeysOfLen(d, n) ==
    IF Len(d) = 0 THEN <<>>
    ELSE (IF Len(Head(d)[1]) = n THEN <<Head(d)[1]>> ELSE <<>>) \o KeysOfLen(Tail(d), n)

\* line 242: sorted(mapeo.keys(), key=len, reverse=True), a stable sort
RECURSIVE SortedDownFrom(_, _)
SortedDownFrom(d, n) ==
    IF n < 0 THEN <<>> ELSE KeysOfLen(d, n) \o SortedDownFrom(d, n - 1)

SortedLongestFirst(d) ==
    IF Len(d) = 0 THEN <<>>
    ELSE SortedDownFrom(d, SetMax({Len(d[k][1]) : k \in 1..Len(d)}))

\* the names, the other phrases and the texts anonymize_text is given here
JuanCarlosPerez == <<"J", "u", "a", "n", " ", "C", "a", "r", "l", "o", "s", " ", "P", "é", "r", "e", "z">>

Perez == <<"P", "é", "r", "e", "z">>

PerezUpper == <<"P", "É", "R", "E", "Z">>

ElActor == <<"e", "l", " ", "a", "c", "t", "o", "r">>

Ana == <<"A", "n", "a">>

VioA == <<"v", "i", "o", " ", "a">>

Dni30 == <<"D", "N", "I", " ", "3", "0">>

AnonPhrases == {JuanCarlosPerez, Perez, PerezUpper, TipoActor, ElActor, Ana, VioA, Dni30}

\* the phrases of a sequence joined by single spaces
RECURSIVE JoinPhrases(_)
JoinPhrases(ps) ==
    IF Len(ps) = 0 THEN <<>>
    ELSE IF Len(ps) = 1 THEN Head(ps)
    ELSE Head(ps) \o <<" ">> \o JoinPhrases(Tail(ps))

\* "Juan Carlos Pérez vio a Pérez"
ExampleText == JoinPhrases(<<JuanCarlosPerez, VioA, Perez>>)

AnonTexts ==
    {JoinPhrases(ps) : ps \in SeqsUpTo(AnonPhrases, MaxPhrases)} \cup {ExampleText}

\* the entities the extraction can give: Juan Carlos Pérez is the actor, with or
\* without a list of variants; Ana is absent, the demandado (with or without
\* variants) or a witness; a document number is listed or not
VariantLists ==
    {<<JuanCarlosPerez, Perez>>, <<Perez>>, <<JuanCarlosPerez, Perez, TipoActor>>,
     <<JuanCarlosPerez, ElActor, TipoActor>>, <<JuanCarlosPerez, ElActor>>}

AnonEntities ==
    {[partes_proceso |-> <<<<TipoActor, <<JuanCarlosPerez>>>>>> \o other,
      variantes |-> own \o others,
      datos_adicionales |-> datos] :
        own \in {<<>>} \cup {<<<<JuanCarlosPerez, v>>>> : v \in VariantLists},
        other \in {<<>>, <<<<TipoDemandado, <<Ana>>>>>>, <<<<TipoTestigos, <<Ana>>>>>>},
        others \in {<<>>, <<<<Ana, <<Ana, TipoActor>>>>>>},
        datos \in {<<>>, <<<<"documentos", <<<<"3", "0">>>>>>>>}}

\* ------------------------------------------------------------------ pre_mask_text
\* (src/pii.py) regular expressions as trees: a character class, \b, a sequence, an
\* alternation, a greedy repetition {min,max} (max = -1: no upper limit)
Cls(S) == [op |-> "cls", set |-> S]

Wb == [op |-> "wb"]

SeqOf(items) == [op |-> "seq", items |-> items]

AltOf(items) == [op |-> "alt", items |-> items]

Rep(node, min, max) == [op |-> "rep", node |-> node, min |-> min, max |-> max]

Elems(s) == {s[k] : k \in 1..Len(s)}

LowerAZ == Elems(LowerLetters) \ {"é"}

UpperAZ == Elems(UpperLetters) \ {"É"}

DigitChars == Elems(Digits)

\* \s
SpaceChars == {" ", "\n", "\t"}

\* the characters of the texts and of the placeholders
PiiChars ==
    Elems(LowerLetters) \cup Elems(UpperLetters) \cup DigitChars \cup SpaceChars
        \cup {".", "_", "%", "+", "-", "@", "(", ")", "[", "]", ","}

\* a literal word under re.IGNORECASE
AnyCase(word) == SeqOf([k \in 1..Len(word) |-> Cls({LowerChar(word[k]), UpperChar(word[k])})])

\* the end positions of the matches of a tree at the 0-based position p of t, in the
\* order in which the backtracking matcher of re tries them; the first is the match
RECURSIVE MatchEnds(_, _, _)
RECURSIVE SeqEnds(_, _, _)
RECURSIVE SeqEndsOver(_, _, _, _)
RECURSIVE AltEnds(_, _, _)
RECURSIVE RepEnds(_, _, _, _)
RECURSIVE RepEndsOver(_, _, _, _, _)
MatchEnds(node, t, p) ==
    CASE node.op = "cls" -> IF p < Len(t) /\ t[p + 1] \in node.set THEN <<p + 1>> ELSE <<>>
      [] node.op = "wb" -> IF WordBoundary(t, p) THEN <<p>> ELSE <<>>
      [] node.op = "seq" -> SeqEnds(node.items, t, p)
      [] node.op = "alt" -> AltEnds(node.items, t, p)
      [] node.op = "rep" -> RepEnds(node, t, p, 0)

SeqEnds(items, t, p) ==
    IF Len(items) = 0 THEN <<p>>
    ELSE SeqEndsOver(MatchEnds(Head(items), t, p), 1, Tail(items), t)

SeqEndsOver(ends, i, items, t) ==
    IF i > Len(ends) THEN <<>>
    ELSE SeqEnds(items, t, ends[i]) \o SeqEndsOver(ends, i + 1, items, t)

AltEnds(items, t, p) ==
    IF Len(items) = 0 THEN <<>>
    ELSE MatchEnds(Head(items), t, p) \o AltEnds(Tail(items), t, p)

RepEnds(node, t, p, count) ==
    (IF node.max >= 0 /\ count >= node.max THEN <<>>
     ELSE RepEndsOver(MatchEnds(node.node, t, p), 1, node, t, count + 1))
        \o (IF count >= node.min THEN <<p>> ELSE <<>>)

RepEndsOver(ends, i, node, t, count) ==
    IF i > Len(ends) THEN <<>>
    ELSE RepEnds(node, t, ends[i], count) \o RepEndsOver(ends, i + 1, node, t, count)

\* line 7: [A-Za-z0-9._%+-]+@[A-Za-z0-9.-]+\.[A-Za-z]{2,}
EMAIL_RE ==
    SeqOf(<<Rep(Cls(LowerAZ \cup UpperAZ \cup DigitChars \cup {".", "_", "%", "+", "-"}), 1, 0 - 1),
            Cls({"@"}),
            Rep(Cls(LowerAZ \cup UpperAZ \cup DigitChars \cup {".", "-"}), 1, 0 - 1),
            Cls({"."}),
            Rep(Cls(LowerAZ \cup UpperAZ), 2, 0 - 1)>>)

\* line 8: \b\d{2}\.?\d{3}\.?\d{3}\b|\b\d{7,9}\b
DOC_ID_RE ==
    AltOf(<<SeqOf(<<Wb, Rep(Cls(DigitChars), 2, 2), Rep(Cls({"."}), 0, 1),
                    Rep(Cls(DigitChars), 3, 3), Rep(Cls({"."}), 0, 1),
                    Rep(Cls(DigitChars), 3, 3), Wb>>),
            SeqOf(<<Wb, Rep(Cls(DigitChars), 7, 9), Wb>>)>>)

\* line 9: \+?\d[\d\s\-\(\)]{6,}\d
PHONE_RE ==
    SeqOf(<<Rep(Cls({"+"}), 0, 1), Cls(DigitChars),
            Rep(Cls(DigitChars \cup SpaceChars \cup {"-", "(", ")"}), 6, 0 - 1),
            Cls(DigitChars)>>)

\* line 10: \b(calle|av\.?|avenida|callejon|pasaje|ruta)\b[^\n]{0,80} with re.IGNORECASE
ADDRESS_RE ==
    SeqOf(<<Wb,
            AltOf(<<AnyCase(<<"c", "a", "l", "l", "e">>),
                    SeqOf(<<AnyCase(<<"a", "v">>), Rep(Cls({"."}), 0, 1)>>),
                    AnyCase(<<"a", "v", "e", "n", "i", "d", "a">>),
                    AnyCase(<<"c", "a", "l", "l", "e", "j", "o", "n">>),
                    AnyCase(<<"p", "a", "s", "a", "j", "e">>),
                    AnyCase(<<"r", "u", "t", "a">>)>>),
            Wb,
            Rep(Cls(PiiChars \ {"\n"}), 0, 80)>>)

\* line 11: \b[A-Z]{2}[0-9]{2}[A-Z0-9]{10,30}\b
IBAN_RE ==
    SeqOf(<<Wb, Rep(Cls(UpperAZ), 2, 2), Rep(Cls(DigitChars), 2, 2),
            Rep(Cls(UpperAZ \cup DigitChars), 10, 30), Wb>>)

\* line 12: \b[0-9]{22}\b|\b[a-zA-Z0-9\.]{6,20}\b
CBU_ALIAS_RE ==
    AltOf(<<SeqOf(<<Wb, Rep(Cls(DigitChars), 22, 22), Wb>>),
            SeqOf(<<Wb, Rep(Cls(LowerAZ \cup UpperAZ \cup DigitChars \cup {"."}), 6, 20), Wb>>)>>)

\* lines 14-21
DEFAULT_PATTERNS ==
    <<<<EMAIL_RE, <<"E", "M", "A", "I", "L">>>>,
      <<DOC_ID_RE, <<"D", "O", "C", "U", "M", "E", "N", "T", "O">>>>,
      <<PHONE_RE, <<"T", "E", "L", "E", "F", "O", "N", "O">>>>,
      <<IBAN_RE, <<"C", "U", "E", "N", "T", "A", "_", "B", "A", "N", "C", "A", "R", "I", "A">>>>,
      <<CBU_ALIAS_RE, <<"C", "U", "E", "N", "T", "A", "_", "B", "A", "N", "C", "A", "R", "I", "A">>>>,
      <<ADDRESS_RE, <<"D", "O", "M", "I", "C", "I", "L", "I", "O">>>>>>

\* str(n) for n >= 0
RECURSIVE Decimal(_)
Decimal(n) == IF n < 10 THEN <<Digits[n + 1]>> ELSE Decimal(n \div 10) \o <<Digits[(n % 10) + 1]>>

\* line 40: f"[{label}_{idx}]"
MaskPlaceholder(label, idx) == <<"[">> \o label \o <<"_">> \o Decimal(idx) \o <<"]">>

\* lines 38-42: the mask _repl records for a match
MaskOf(label, idx, value) ==
    [id |-> idx, label |-> label, value |-> value, placeholder |-> MaskPlaceholder(label, idx)]

\* the matches pattern.sub finds in t from position p on: from left to right, not
\* overlapping, as pairs <<start, end>>
RECURSIVE FindMatches(_, _, _)
FindMatches(pattern, t, p) ==
    IF p >= Len(t) THEN <<>>
    ELSE LET ends == MatchEnds(pattern, t, p)
         IN  IF Len(ends) > 0 /\ ends[1] > p
             THEN <<<<p, ends[1]>>>> \o FindMatches(pattern, t, ends[1])
             ELSE FindMatches(pattern, t, p + 1)

\* lines 37-44: apply(pattern, label, input_text): each match is replaced by the
\* placeholder _repl returns, and its mask is appended to masks
RECURSIVE ApplyMatches(_, _, _, _, _, _)
ApplyMatches(found, i, label, t, p, masks) ==
    IF i > Len(found) THEN [out |-> Slice(t, p, Len(t)), masks |-> masks]
    ELSE LET mask == MaskOf(label, Len(masks), Slice(t, found[i][1], found[i][2]))
             rest == ApplyMatches(found, i + 1, label, t, found[i][2], Append(masks, mask))
         IN  [out |-> Slice(t, p, found[i][1]) \o mask.placeholder \o rest.out,
              masks |-> rest.masks]

apply(pattern, label, input_text, masks) ==
    ApplyMatches(FindMatches(pattern, input_text, 0), 1, label, input_text, 0, masks)

\* the texts pre_mask_text is given here
MaskPhrases ==
    {<<"a", "n", "a", "@", "x", ".", "c", "o", "m">>,
     <<"3", "0", ".", "1", "2", "3", ".", "4", "5", "6">>,
     <<"3", "0", "1", "2", "3", "4", "5", "6">>,
     <<"4", "4", "4", "4", "-", "5", "5", "5", "5">>,
     <<"c", "a", "l", "l", "e", " ", "9">>,
     <<"A", "v", ".">>,
     <<"v", "i", "v", "e">>,
     <<"S", "i", "e", "m", "p", "r", "e">>}

MaskTexts == {JoinPhrases(ps) : ps \in SeqsUpTo(MaskPhrases, MaxMaskPhrases)}

\* ------------------------------------------------------------------ split_with_overlap
\* (src/tokenizer_utils.py) line 60:
\* available_tokens = max(1, int((max_prompt_tokens - system_prompt_tokens) * safety_factor))
AvailableTokens(max_prompt_tokens, system_prompt_tokens, sf) ==
    Max(1, TruncDiv((max_prompt_tokens - system_prompt_tokens) * sf[1], sf[2]))

\* lines 65-70: the tuple appended for the window that starts at token_start
SplitChunk(text, token_spans, token_start, token_end) ==
    LET char_start == token_spans[token_start + 1].start
        char_end == token_spans[token_end].end
    IN  <<Slice(text, char_start, char_end), char_start, char_end, token_start, token_end>>

\* line 75: token_start = max(0, token_end - overlap_tokens)
SplitNextStart(token_end, overlap) == Max(0, token_end - overlap)

\* the calls of split_with_overlap made here
SplitSafetyFactors == {<<1, 2>>, <<1, 1>>}

SplitCalls ==
    [text : Texts, max_prompt_tokens : 1..MaxSplitPrompt, system_prompt_tokens : 0..1,
     overlap_tokens : 0..MaxSplitOverlap, safety_factor : SplitSafetyFactors]

\* ------------------------------------------------------------------ the HTTP service
\* (src/backend/main.py) line 181: timedelta(hours=1), in ticks of the model's clock
Hour == 2

\* line 101: file_id = str(uuid.uuid4()): the n-th request to /upload gets the id n
FileIds == 1..MaxUploads

\* how a request to /upload ends: with the answer of line 195, or with the
\* HTTPException of line 109 (400), line 117 (413) or line 219 (500)
UploadOutcomes == {200, 400, 413, 500}

\* lines 176-188: the entry of a processed file (the fields the cache logic reads)
FileInfo(file_id, at) ==
    [output_path |-> file_id, created_at |-> at, expires_at |-> at + Hour]

\* line 254 and line 369: datetime.now() > file_info["expires_at"]
Expired(file_info, at) == at > file_info.expires_at

DictDel(d, key) == [k \in (DOMAIN d) \ {key} |-> d[k]]

\* what a handler answered: the request, the file id it was about, the status code
\* and the time
Response(op, file_id, status, at) == [op |-> op, file_id |-> file_id, status |-> status, at |-> at]

\* lines 365-380: cleanup_expired_files
ExpiredIds(files, at) == {f \in DOMAIN files : Expired(files[f], at)}

\* ------------------------------------------------------------------ AnonymizerApp
\* (src/unnamed/part_000) lines 1113-1114: a call of _start_processing returns at once
\* while a run is in progress
\* (variant that never returns early)
start_never_ignored(in_progress) == FALSE

start_ignored(in_progress) == in_progress

\* lines 1179-1183 and 1158: an item of log_queue, with the run whose worker put it and
\* its position among the items of that run
QueueItem(kind, run, n) == [kind |-> kind, run |-> run, n |-> n]

\* what the worker of a run reports through _enqueue_log_message and
\* _enqueue_progress before it puts its "done" item
WorkerScripts == {<<>>, <<"log">>, <<"log", "progress">>, <<"progress", "log">>}

\* what a call of _start_processing finds: a selected file that exists (lines
\* 1116-1123), a form that _build_config_from_form accepts (lines 1125-1129), a
\* logs directory RunLogger can create (line 143), and what the run will report
StartInputs ==
    [file_ok : BOOLEAN, config_ok : BOOLEAN, logger_ok : BOOLEAN, script : WorkerScripts]

\* ------------------------------------------------------------------ state
VARIABLES
    text,            \* build_chunks: the document text
    max_tokens,      \* build_chunks: max_tokens
    overlap_tokens,  \* build_chunks: overlap_tokens
    safety_factor,   \* build_chunks: safety_factor
    plan_pc,         \* which of the planner's functions have been applied
    spans,           \* the value tokenize_with_spans(text) returned
    tokens,          \* the value _simple_tokenize(text) returned
    plan,            \* the outcome of build_chunks
    m_chunks,        \* merge_chunks: chunks
    m_processed,     \* merge_chunks: processed_chunks
    merge_pc,        \* "input" before the call of merge_chunks, "merged" after it
    merged,          \* the outcome of merge_chunks
    m_verdict,       \* what validate_chunk_sequence answers for m_chunks, "pending" before
    max_retries,     \* LMStudioClient.max_retries
    backoff_seconds, \* LMStudioClient.backoff_seconds
    gen_pc,          \* generate: "idle", "attempting", "returned" or "raised"
    attempt,         \* generate: the loop variable attempt
    last_error,      \* generate: last_error
    requests,        \* number of POST requests generate has issued
    warns,           \* the WARN lines generate has logged, as <<attempt + 1, wait_time>>
    sleeps,          \* the durations generate has slept, in order
    attempt_log,     \* history: each attempt's response and the exception it raised
    gen_out,         \* what generate returned or raised
    p_chunks,        \* process_chunks: chunks
    abort_on_failure, \* runtime_config["abort_on_failure"]
    debug_mode,      \* runtime_config["debug"]
    progress_callback, \* whether a progress_callback was passed
    proc_pc,         \* "idle", "loop", "in_call", "returned" or "raised"
    pos,             \* position in chunks of the loop's current chunk
    results,         \* process_chunks: results
    failed_chunks,   \* process_chunks: failed_chunks
    progress,        \* the notifications given to progress_callback, in order
    chunk_entries,   \* RunLogger._chunk_entries
    console,         \* the lines given to RunLogger.log_console, as <<level, chunk index>>
    calls,           \* history: the calls of client.generate, as <<chunk index, user_prompt>>
    proc_exc,        \* the exception that left process_chunks, "None" if none
    original_text,   \* detect_suspicious_edits: original_text
    anonymized_text, \* detect_suspicious_edits: anonymized_text
    edit_kind,       \* history: how anonymized_text was made from original_text
    max_items,       \* detect_suspicious_edits: max_items
    val_pc,          \* "input", "detected" or "validated"
    detected,        \* detect_suspicious_edits: opcodes, suspicious, and how far the loop went
    validation,      \* summary["validation"], with the count given on the console
    caller_params,   \* history: the inference_params dict as the caller built it
    heap,            \* the dicts that exist; heap[1] is the caller's inference_params
    self_params,     \* the place in heap of self.inference_params, 0 before __init__
    payload_ref,     \* the place in heap of the payload _chat_payload returned, 0 if none
    client_pc        \* "new", "constructed" or "payload"

planVars == <<text, max_tokens, overlap_tokens, safety_factor, plan_pc, spans, tokens, plan>>

mergeVars == <<m_chunks, m_processed, merge_pc, merged, m_verdict>>

genVars == <<max_retries, backoff_seconds, gen_pc, attempt, last_error, requests,
             warns, sleeps, attempt_log, gen_out>>

procVars == <<p_chunks, abort_on_failure, debug_mode, progress_callback, proc_pc, pos,
              results, failed_chunks, progress, chunk_entries, console, calls, proc_exc>>

valVars == <<original_text, anonymized_text, edit_kind, max_items, val_pc, detected,
             validation>>

clientVars == <<caller_params, heap, self_params, payload_ref, client_pc>>

VARIABLES
    run_config,       \* run_anonymization: the configuration, the file and the service
    run_pc,           \* run_anonymization: the line reached
    run_text,         \* the local text
    run_chunks,       \* the local chunks
    run_processed,    \* the local processed_chunks
    run_failed,       \* the local failed_chunks
    final_document,   \* the local final_document
    output_written,   \* the contents written to output_file, in order
    summary,          \* the local summary
    logger_entries,   \* logger._chunk_entries
    finalized,        \* the dicts logger.finalize wrote, in order
    run_requests,     \* the chunk indices client.generate was called for
    run_probes,       \* the number of calls of client.check_health
    run_extractions,  \* the number of calls of an extract_text function
    pc_pos,           \* process_chunks: position of its loop
    pc_results,       \* process_chunks: its local results
    pc_failed,        \* process_chunks: its local failed_chunks
    run_exc           \* the exception on its way to the except branch

runVars == <<run_config, run_pc, run_text, run_chunks, run_processed, run_failed,
             final_document, output_written, summary, logger_entries, finalized,
             run_requests, run_probes, run_extractions, pc_pos, pc_results, pc_failed,
             run_exc>>

VARIABLES
    a_text,             \* anonymize_text: text
    entities_json,      \* anonymize_text: entities_json
    anon_pc,            \* anonymize_text: the line reached
    mapeo,              \* the local mapeo, in insertion order
    candidates,         \* the sorted keys the loop of line 242 goes through
    anon_k,             \* the number of candidates the loop has handled
    texto_anonimizado   \* the local texto_anonimizado

anonVars == <<a_text, entities_json, anon_pc, mapeo, candidates, anon_k, texto_anonimizado>>

VARIABLES
    pm_text,    \* pre_mask_text: text
    mask_pc,    \* pre_mask_text: the line reached
    pattern_k,  \* the number of patterns of DEFAULT_PATTERNS already applied
    masked,     \* the local masked
    masks       \* the local masks

maskVars == <<pm_text, mask_pc, pattern_k, masked, masks>>

VARIABLES
    split_call,        \* split_with_overlap: the arguments
    split_pc,          \* split_with_overlap: the line reached
    split_spans,       \* the local spans
    available_tokens,  \* the local available_tokens
    split_start,       \* the local token_start
    split_chunks       \* the local chunks

splitVars == <<split_call, split_pc, split_spans, available_tokens, split_start, split_chunks>>

VARIABLES
    now,              \* datetime.now()
    processed_files,  \* the module-level dict processed_files
    disk,             \* the output files that exist under TMP_DIR, by file id
    uploads,          \* the number of requests to /upload so far
    responses         \* the answers given so far, in order

httpVars == <<now, processed_files, disk, uploads, responses>>

VARIABLES
    run_in_progress,  \* self.run_in_progress
    start_button,     \* the state of self.start_button
    log_queue,        \* self.log_queue
    gui_pc,           \* the foreground thread: "idle", or "draining" in _process_log_queue
    workers,          \* the worker threads started so far: what each has left to do
    start_log,        \* how each call of _start_processing ended
    emitted,          \* per run, the items its worker put into log_queue, in order
    consumed          \* per run, the items _process_log_queue dispatched, in order

guiVars == <<run_in_progress, start_button, log_queue, gui_pc, workers, start_log, emitted,
             consumed>>

vars == <<planVars, mergeVars, genVars, procVars, valVars, clientVars, runVars, anonVars,
          maskVars, splitVars, httpVars, guiVars>>

PlanIdle ==
    /\ text = <<>>
    /\ max_tokens = 0
    /\ overlap_tokens = 0
    /\ safety_factor = <<1, 1>>
    /\ plan_pc = "idle"
    /\ spans = <<>>
    /\ tokens = <<>>
    /\ plan = [err |-> "pending", chunks |-> <<>>]

MergeIdle ==
    /\ m_chunks = <<>>
    /\ m_processed = <<>>
    /\ merge_pc = "idle"
    /\ merged = [result |-> <<>>, locals |-> NoMergeLocals]
    /\ m_verdict = "unused"

GenIdle ==
    /\ max_retries = 0
    /\ backoff_seconds = 0
    /\ gen_pc = "unused"
    /\ attempt = 0
    /\ last_error = NoExc
    /\ requests = 0
    /\ warns = <<>>
    /\ sleeps = <<>>
    /\ attempt_log = <<>>
    /\ gen_out = GenPending

ProcIdle ==
    /\ p_chunks = <<>>
    /\ abort_on_failure = FALSE
    /\ debug_mode = FALSE
    /\ progress_callback = FALSE
    /\ proc_pc = "unused"
    /\ pos = 0
    /\ results = <<>>
    /\ failed_chunks = <<>>
    /\ progress = <<>>
    /\ chunk_entries = <<>>
    /\ console = <<>>
    /\ calls = <<>>
    /\ proc_exc = "None"

ValIdle ==
    /\ original_text = <<>>
    /\ anonymized_text = <<>>
    /\ edit_kind = "pair"
    /\ max_items = DefaultMaxItems
    /\ val_pc = "unused"
    /\ detected = NotDetected
    /\ validation = PendingValidation

ClientIdle ==
    /\ caller_params = <<>>
    /\ heap = <<>>
    /\ self_params = 0
    /\ payload_ref = 0
    /\ client_pc = "unused"

\* lines 643-663: the locals of run_anonymization before the try block
RunLocals ==
    /\ run_text = <<>>
    /\ run_chunks = <<>>
    /\ run_processed = <<>>
    /\ run_failed = <<>>
    /\ final_document = <<>>
    /\ output_written = <<>>
    /\ summary = InitialSummary
    /\ logger_entries = <<>>
    /\ finalized = <<>>
    /\ run_requests = <<>>
    /\ run_probes = 0
    /\ run_extractions = 0
    /\ pc_pos = 0
    /\ pc_results = <<>>
    /\ pc_failed = <<>>
    /\ run_exc = "None"

RunIdle ==
    /\ run_config = [health_ok |-> TRUE, lm_keys |-> TRUE, ext |-> ".pdf", doc |-> <<>>,
                     max_context_tokens |-> 1, overlap_tokens |-> 0,
                     abort_on_failure |-> FALSE, debug |-> FALSE]
    /\ run_pc = "unused"
    /\ RunLocals

AnonIdle ==
    /\ a_text = <<>>
    /\ entities_json = [partes_proceso |-> <<>>, variantes |-> <<>>, datos_adicionales |-> <<>>]
    /\ anon_pc = "unused"
    /\ mapeo = <<>>
    /\ candidates = <<>>
    /\ anon_k = 0
    /\ texto_anonimizado = <<>>

MaskIdle ==
    /\ pm_text = <<>>
    /\ mask_pc = "unused"
    /\ pattern_k = 0
    /\ masked = <<>>
    /\ masks = <<>>

SplitIdle ==
    /\ split_call = <<>>
    /\ split_pc = "unused"
    /\ split_spans = <<>>
    /\ available_tokens = 0
    /\ split_start = 0
    /\ split_chunks = <<>>

HttpIdle ==
    /\ now = 0
    /\ processed_files = <<>>
    /\ disk = {}
    /\ uploads = 0
    /\ responses = <<>>

GuiIdle ==
    /\ run_in_progress = FALSE
    /\ start_button = "unused"
    /\ log_queue = <<>>
    /\ gui_pc = "unused"
    /\ workers = <<>>
    /\ start_log = <<>>
    /\ emitted = <<>>
    /\ consumed = <<>>

\* --------------------------------------------- planner: inputs and calls
PlanInit ==
    /\ text \in Texts
    /\ max_tokens \in (0 - 1)..MaxTokens
    /\ overlap_tokens \in (0 - 1)..1
    /\ safety_factor \in SafetyFactors
    /\ plan_pc = "input"
    /\ spans = <<>>
    /\ tokens = <<>>
    /\ plan = [err |-> "pending", chunks |-> <<>>]
    /\ MergeIdle
    /\ GenIdle
    /\ ProcIdle
    /\ ValIdle
    /\ ClientIdle
    /\ RunIdle
    /\ AnonIdle
    /\ MaskIdle
    /\ SplitIdle
    /\ HttpIdle
    /\ GuiIdle

TokenizeWithSpans ==
    /\ plan_pc = "input"
    /\ spans' = tokenize_with_spans(text)
    /\ plan_pc' = "spanned"
    /\ UNCHANGED <<text, max_tokens, overlap_tokens, safety_factor, tokens, plan>>
    /\ UNCHANGED <<mergeVars, genVars, procVars, valVars, clientVars, runVars, anonVars, maskVars, splitVars, httpVars, guiVars>>

SimpleTokenize ==
    /\ plan_pc = "spanned"
    /\ tokens' = simple_tokenize(text)
    /\ plan_pc' = "tokenized"
    /\ UNCHANGED <<text, max_tokens, overlap_tokens, safety_factor, spans, plan>>
    /\ UNCHANGED <<mergeVars, genVars, procVars, valVars, clientVars, runVars, anonVars, maskVars, splitVars, httpVars, guiVars>>

BuildChunks ==
    /\ plan_pc = "tokenized"
    /\ plan' = build_chunks(text, max_tokens, overlap_tokens, safety_factor)
    /\ plan_pc' = "planned"
    /\ UNCHANGED <<text, max_tokens, overlap_tokens, safety_factor, spans, tokens>>
    /\ UNCHANGED <<mergeVars, genVars, procVars, valVars, clientVars, runVars, anonVars, maskVars, splitVars, httpVars, guiVars>>

\* lines 688-698: run_anonymization plans the chunks of the extracted text
RunBuildChunks ==
    /\ plan_pc = "tokenized"
    /\ plan' = run_build_chunks(text, max_tokens, overlap_tokens, safety_factor)
    /\ plan_pc' = "run_planned"
    /\ UNCHANGED <<text, max_tokens, overlap_tokens, safety_factor, spans, tokens>>
    /\ UNCHANGED <<mergeVars, genVars, procVars, valVars, clientVars, runVars, anonVars, maskVars, splitVars, httpVars, guiVars>>

\* lines 530-547 on lines 329-374: merge_chunks(build_chunks(text, ...), results) where
\* each result is the chunk's own text or, for a failed chunk, the empty string
MergePlanned ==
    /\ plan_pc = "planned"
    /\ plan.err = "none"
    /\ merge_pc = "idle"
    /\ \E failed \in SUBSET (1..Len(plan.chunks)) :
           /\ m_processed' = [i \in 1..Len(plan.chunks) |->
                                  IF i \in failed THEN <<>> ELSE plan.chunks[i].text]
           /\ merged' = merge_chunks(plan.chunks, m_processed')
    /\ m_chunks' = plan.chunks
    /\ merge_pc' = "merged"
    /\ UNCHANGED m_verdict
    /\ UNCHANGED planVars
    /\ UNCHANGED <<genVars, procVars, valVars, clientVars, runVars, anonVars, maskVars, splitVars, httpVars, guiVars>>

PlanNext ==
    TokenizeWithSpans \/ SimpleTokenize \/ BuildChunks \/ RunBuildChunks \/ MergePlanned

PlanSpec == PlanInit /\ [][PlanNext]_vars

\* --------------------------------------------- merger: inputs and call
MergeInit ==
    /\ m_chunks \in MergeChunkLists
    /\ m_processed \in [1..Len(m_chunks) -> ProcessedTexts]
    /\ merge_pc = "input"
    /\ merged = [result |-> <<>>, locals |-> NoMergeLocals]
    /\ m_verdict = "pending"
    /\ PlanIdle
    /\ GenIdle
    /\ ProcIdle
    /\ ValIdle
    /\ ClientIdle
    /\ RunIdle
    /\ AnonIdle
    /\ MaskIdle
    /\ SplitIdle
    /\ HttpIdle
    /\ GuiIdle

MergeChunks ==
    /\ merge_pc = "input"
    /\ merged' = merge_chunks(m_chunks, m_processed)
    /\ merge_pc' = "merged"
    /\ UNCHANGED <<m_chunks, m_processed, m_verdict>>
    /\ UNCHANGED <<planVars, genVars, procVars, valVars, clientVars, runVars, anonVars, maskVars, splitVars, httpVars, guiVars>>

\* lines 377-391: validate_chunk_sequence(m_chunks, total_tokens) for the document
\* the chunks are windows of
ValidateChunkSequence ==
    /\ m_verdict = "pending"
    /\ m_verdict' = validate_chunk_sequence(m_chunks, MergeDocTokens)
    /\ UNCHANGED <<m_chunks, m_processed, merge_pc, merged>>
    /\ UNCHANGED <<planVars, genVars, procVars, valVars, clientVars, runVars, anonVars, maskVars, splitVars, httpVars, guiVars>>

MergeNext == MergeChunks \/ ValidateChunkSequence

MergeSpec == MergeInit /\ [][MergeNext]_vars

\* --------------------------------------------- client: generate
GenInit ==
    /\ max_retries \in (0 - 1)..MaxRetries
    /\ backoff_seconds \in 0..MaxBackoff
    /\ gen_pc = "idle"
    /\ attempt = 0
    /\ last_error = NoExc
    /\ requests = 0
    /\ warns = <<>>
    /\ sleeps = <<>>
    /\ attempt_log = <<>>
    /\ gen_out = GenPending
    /\ PlanIdle
    /\ MergeIdle
    /\ ProcIdle
    /\ ValIdle
    /\ ClientIdle
    /\ RunIdle
    /\ AnonIdle
    /\ MaskIdle
    /\ SplitIdle
    /\ HttpIdle
    /\ GuiIdle

\* lines 224-227 and 258: generate is entered; with an empty range the loop body
\* never runs and the assert on last_error fails
GenerateCall ==
    /\ gen_pc = "idle"
    /\ IF max_retries + 1 > 0
       THEN /\ gen_pc' = "attempting"
            /\ gen_out' = gen_out
       ELSE /\ gen_pc' = "raised"
            /\ gen_out' = [kind |-> "raised", content |-> <<>>,
                           exc |-> Exc("AssertionError", 0), cause |-> NoExc]
    /\ attempt' = 0
    /\ last_error' = NoExc
    /\ UNCHANGED <<max_retries, backoff_seconds, requests, warns, sleeps, attempt_log>>
    /\ UNCHANGED <<planVars, mergeVars, procVars, valVars, clientVars, runVars, anonVars, maskVars, splitVars, httpVars, guiVars>>

\* lines 227-259: one iteration of the retry loop: the request, and what the
\* handler does with its outcome
GenerateAttempt ==
    /\ gen_pc = "attempting"
    /\ \E resp \in Responses :
        LET out == TryBody(resp, attempt)
        IN  /\ requests' = requests + 1
            /\ attempt_log' = Append(attempt_log, [resp |-> resp, exc |-> out.exc])
            /\ IF out.ret
               THEN \* line 243: return content
                    /\ gen_pc' = "returned"
                    /\ gen_out' = [kind |-> "returned", content |-> out.content,
                                   exc |-> NoExc, cause |-> NoExc]
                    /\ UNCHANGED <<attempt, last_error, warns, sleeps>>
               ELSE IF out.exc.type \in CaughtTypes
               THEN /\ last_error' = out.exc
                    /\ IF RetriesLeft(attempt, max_retries)
                       THEN \* lines 249-254: WARN, sleep, next attempt
                            /\ warns' = Append(warns, <<attempt + 1, WaitTime(backoff_seconds, attempt)>>)
                            /\ sleeps' = Append(sleeps, WaitTime(backoff_seconds, attempt))
                            /\ attempt' = attempt + 1
                            /\ UNCHANGED <<gen_pc, gen_out>>
                       ELSE \* lines 256-259: break, raise RuntimeError from last_error
                            /\ gen_pc' = "raised"
                            /\ gen_out' = [kind |-> "raised", content |-> <<>>,
                                           exc |-> Exc("RuntimeError", attempt),
                                           cause |-> out.exc]
                            /\ UNCHANGED <<attempt, warns, sleeps>>
               ELSE \* not named by the except clause: the exception leaves generate
                    /\ gen_pc' = "raised"
                    /\ gen_out' = [kind |-> "raised", content |-> <<>>,
                                   exc |-> out.exc, cause |-> NoExc]
                    /\ UNCHANGED <<attempt, last_error, warns, sleeps>>
    /\ UNCHANGED <<max_retries, backoff_seconds>>
    /\ UNCHANGED <<planVars, mergeVars, procVars, valVars, clientVars, runVars, anonVars, maskVars, splitVars, httpVars, guiVars>>

GenNext == GenerateCall \/ GenerateAttempt

GenSpec == GenInit /\ [][GenNext]_vars

\* --------------------------------------------- processor: process_chunks
ProcInit ==
    /\ p_chunks \in ProcChunkLists
    /\ abort_on_failure \in BOOLEAN
    /\ debug_mode \in BOOLEAN
    /\ progress_callback \in BOOLEAN
    /\ proc_pc = "idle"
    /\ pos = 0
    /\ results = <<>>
    /\ failed_chunks = <<>>
    /\ progress = <<>>
    /\ chunk_entries = <<>>
    /\ console = <<>>
    /\ calls = <<>>
    /\ proc_exc = "None"
    /\ PlanIdle
    /\ MergeIdle
    /\ GenIdle
    /\ ValIdle
    /\ ClientIdle
    /\ RunIdle
    /\ AnonIdle
    /\ MaskIdle
    /\ SplitIdle
    /\ HttpIdle
    /\ GuiIdle

\* lines 445-452: process_chunks is entered
ProcessChunksCall ==
    /\ proc_pc = "idle"
    /\ results' = EmptyResults(p_chunks)
    /\ failed_chunks' = <<>>
    /\ progress' = Notify(progress_callback, progress, 0, Len(p_chunks))
    /\ pos' = 1
    /\ proc_pc' = "loop"
    /\ UNCHANGED <<p_chunks, abort_on_failure, debug_mode, progress_callback,
                   chunk_entries, console, calls, proc_exc>>
    /\ UNCHANGED <<planVars, mergeVars, genVars, valVars, clientVars, runVars, anonVars, maskVars, splitVars, httpVars, guiVars>>

\* lines 454-465: the loop takes its next chunk and calls client.generate
ChunkStart ==
    /\ proc_pc = "loop"
    /\ pos <= Len(p_chunks)
    /\ console' = Append(console, <<"INFO", p_chunks[pos].index>>)
    /\ calls' = Append(calls, <<p_chunks[pos].index, build_user_prompt(p_chunks[pos])>>)
    /\ proc_pc' = "in_call"
    /\ UNCHANGED <<p_chunks, abort_on_failure, debug_mode, progress_callback, pos,
                   results, failed_chunks, progress, chunk_entries, proc_exc>>
    /\ UNCHANGED <<planVars, mergeVars, genVars, valVars, clientVars, runVars, anonVars, maskVars, splitVars, httpVars, guiVars>>

\* lines 465-522: client.generate has returned or raised; the outcome is recorded
ChunkFinish ==
    /\ proc_pc = "in_call"
    /\ \E out \in GenerateOutcomes(p_chunks[pos]) :
        LET chunk == p_chunks[pos]
            total == Len(p_chunks)
        IN  IF out.ret
            THEN /\ chunk_entries' =
                        IF debug_mode
                        THEN chunk_entries \o <<ChunkEntry(chunk, out.response, "ok"),
                                                DebugEntry(chunk, out.response)>>
                        ELSE Append(chunk_entries, ChunkEntry(chunk, out.response, "ok"))
                 /\ results' = [results EXCEPT ![chunk.index] = out.response]
                 /\ progress' = Notify(progress_callback, progress, chunk.index, total)
                 /\ pos' = pos + 1
                 /\ proc_pc' = "loop"
                 /\ UNCHANGED <<failed_chunks, console, proc_exc>>
            ELSE /\ console' = Append(console, <<"ERROR", chunk.index>>)
                 /\ chunk_entries' = Append(chunk_entries, ChunkEntry(chunk, <<>>, "error"))
                 /\ failed_chunks' = RecordFailure(failed_chunks, chunk.index)
                 /\ progress' = Notify(progress_callback, progress, chunk.index, total)
                 /\ IF RaisesOnFailure(abort_on_failure)
                    THEN /\ proc_pc' = "raised"
                         /\ proc_exc' = out.exc
                         /\ pos' = pos
                    ELSE /\ proc_pc' = "loop"
                         /\ proc_exc' = proc_exc
                         /\ pos' = pos + 1
                 /\ UNCHANGED results
    /\ UNCHANGED <<p_chunks, abort_on_failure, debug_mode, progress_callback, calls>>
    /\ UNCHANGED <<planVars, mergeVars, genVars, valVars, clientVars, runVars, anonVars, maskVars, splitVars, httpVars, guiVars>>

\* line 524: the loop is over, results and failed_chunks are returned
ProcessChunksReturn ==
    /\ proc_pc = "loop"
    /\ pos > Len(p_chunks)
    /\ proc_pc' = "returned"
    /\ UNCHANGED <<p_chunks, abort_on_failure, debug_mode, progress_callback, pos, results,
                   failed_chunks, progress, chunk_entries, console, calls, proc_exc>>
    /\ UNCHANGED <<planVars, mergeVars, genVars, valVars, clientVars, runVars, anonVars, maskVars, splitVars, httpVars, guiVars>>

ProcNext == ProcessChunksCall \/ ChunkStart \/ ChunkFinish \/ ProcessChunksReturn

ProcSpec == ProcInit /\ [][ProcNext]_vars

\* --------------------------------------------- validation: inputs and calls
ValInit ==
    /\ \E c \in ValCases :
           /\ original_text = c.original
           /\ anonymized_text = c.final
           /\ edit_kind = c.kind
    /\ max_items \in (0..MaxItems) \cup {DefaultMaxItems}
    /\ val_pc = "input"
    /\ detected = NotDetected
    /\ validation = PendingValidation
    /\ PlanIdle
    /\ MergeIdle
    /\ GenIdle
    /\ ProcIdle
    /\ ClientIdle
    /\ RunIdle
    /\ AnonIdle
    /\ MaskIdle
    /\ SplitIdle
    /\ HttpIdle
    /\ GuiIdle

\* lines 587-624: detect_suspicious_edits(original_text, anonymized_text, max_items)
DetectSuspiciousEdits ==
    /\ val_pc = "input"
    /\ detected' = detect_suspicious_edits(original_text, anonymized_text, max_items)
    /\ val_pc' = "detected"
    /\ UNCHANGED <<original_text, anonymized_text, edit_kind, max_items, validation>>
    /\ UNCHANGED <<planVars, mergeVars, genVars, procVars, clientVars, runVars, anonVars, maskVars, splitVars, httpVars, guiVars>>

\* lines 737-753: run_anonymization has called detect_suspicious_edits(text,
\* final_document), with the default max_items and a text that is not blank (line
\* 688), and fills summary["validation"]
Validate ==
    /\ val_pc = "detected"
    /\ max_items = DefaultMaxItems
    /\ Len(Strip(original_text)) > 0
    /\ validation' = ValidationOf(detected.suspicious)
    /\ val_pc' = "validated"
    /\ UNCHANGED <<original_text, anonymized_text, edit_kind, max_items, detected>>
    /\ UNCHANGED <<planVars, mergeVars, genVars, procVars, clientVars, runVars, anonVars, maskVars, splitVars, httpVars, guiVars>>

ValNext == DetectSuspiciousEdits \/ Validate

ValSpec == ValInit /\ [][ValNext]_vars

\* --------------------------------------------- LMStudioClient: inputs and calls
ClientInit ==
    /\ caller_params \in CallerParams
    /\ heap = <<caller_params>>
    /\ self_params = 0
    /\ payload_ref = 0
    /\ client_pc = "new"
    /\ PlanIdle
    /\ MergeIdle
    /\ GenIdle
    /\ ProcIdle
    /\ ValIdle
    /\ RunIdle
    /\ AnonIdle
    /\ MaskIdle
    /\ SplitIdle
    /\ HttpIdle
    /\ GuiIdle

\* lines 173-198: LMStudioClient(..., inference_params=heap[1], ...)
ClientConstruct ==
    /\ client_pc = "new"
    /\ LET copied == CopyDict(heap, 1)
       IN  /\ heap' = [copied.heap EXCEPT
                          ![copied.ref] = DefaultRepeatPenalty(ForceDeterministic(@))]
           /\ self_params' = copied.ref
    /\ client_pc' = "constructed"
    /\ UNCHANGED <<caller_params, payload_ref>>
    /\ UNCHANGED <<planVars, mergeVars, genVars, procVars, valVars, runVars, anonVars, maskVars, splitVars, httpVars, guiVars>>

\* lines 200-211 (called at line 224): the payload is a new dict
ChatPayload ==
    /\ client_pc = "constructed"
    /\ heap' = Append(heap, chat_payload("model", heap[self_params], "system", "user"))
    /\ payload_ref' = Len(heap) + 1
    /\ client_pc' = "payload"
    /\ UNCHANGED <<caller_params, self_params>>
    /\ UNCHANGED <<planVars, mergeVars, genVars, procVars, valVars, runVars, anonVars, maskVars, splitVars, httpVars, guiVars>>

ClientNext == ClientConstruct \/ ChatPayload

ClientSpec == ClientInit /\ [][ClientNext]_vars

\* --------------------------------------------- run_anonymization: inputs and steps
RunInit ==
    /\ run_config \in RunConfigs
    /\ run_pc = "start"
    /\ RunLocals
    /\ PlanIdle
    /\ MergeIdle
    /\ GenIdle
    /\ ProcIdle
    /\ ValIdle
    /\ ClientIdle
    /\ AnonIdle
    /\ MaskIdle
    /\ SplitIdle
    /\ HttpIdle
    /\ GuiIdle

\* lines 666-677: the client is constructed (KeyError when lm_api lacks a key) and
\* check_health is called once; it raises ConnectionError when the probe fails
RunConnect ==
    /\ run_pc = "start"
    /\ IF ~run_config.lm_keys
       THEN /\ run_exc' = "KeyError"
            /\ run_pc' = "raised"
            /\ UNCHANGED run_probes
       ELSE /\ run_probes' = run_probes + 1
            /\ IF check_health_raises(run_config.health_ok)
               THEN run_pc' = "raised" /\ run_exc' = "ConnectionError"
               ELSE run_pc' = "connected" /\ UNCHANGED run_exc
    /\ UNCHANGED <<run_config, run_text, run_chunks, run_processed, run_failed,
                   final_document, output_written, summary, logger_entries, finalized,
                   run_requests, run_extractions, pc_pos, pc_results, pc_failed>>
    /\ UNCHANGED <<planVars, mergeVars, genVars, procVars, valVars, clientVars, anonVars, maskVars, splitVars, httpVars, guiVars>>

\* lines 679-691: the text is extracted from a .pdf, .doc or .docx file; ValueError
\* for another extension and for a text without a readable character
RunExtract ==
    /\ run_pc = "connected"
    /\ IF run_config.ext \notin {".pdf", ".doc", ".docx"}
       THEN /\ run_exc' = "ValueError: unsupported"
            /\ run_pc' = "raised"
            /\ UNCHANGED <<run_text, run_extractions>>
       ELSE /\ run_extractions' = run_extractions + 1
            /\ run_text' = run_config.doc
            /\ IF Len(Strip(run_config.doc)) = 0
               THEN run_pc' = "raised" /\ run_exc' = "ValueError: empty"
               ELSE run_pc' = "extracted" /\ UNCHANGED run_exc
    /\ UNCHANGED <<run_config, run_chunks, run_processed, run_failed, final_document,
                   output_written, summary, logger_entries, finalized, run_requests,
                   run_probes, pc_pos, pc_results, pc_failed>>
    /\ UNCHANGED <<planVars, mergeVars, genVars, procVars, valVars, clientVars, anonVars, maskVars, splitVars, httpVars, guiVars>>

\* lines 693-699: chunks = build_chunks(...); an exception leaves chunks as it was
RunPlan ==
    /\ run_pc = "extracted"
    /\ LET planned == run_build_chunks(run_text, run_config.max_context_tokens,
                                       run_config.overlap_tokens, DefaultSafetyFactor)
       IN  IF planned.err # "none"
           THEN /\ run_exc' = "ValueError: " \o planned.err
                /\ run_pc' = "raised"
                /\ UNCHANGED run_chunks
           ELSE /\ run_chunks' = planned.chunks
                /\ run_pc' = "planned"
                /\ UNCHANGED run_exc
    /\ UNCHANGED <<run_config, run_text, run_processed, run_failed, final_document,
                   output_written, summary, logger_entries, finalized, run_requests,
                   run_probes, run_extractions, pc_pos, pc_results, pc_failed>>
    /\ UNCHANGED <<planVars, mergeVars, genVars, procVars, valVars, clientVars, anonVars, maskVars, splitVars, httpVars, guiVars>>

\* lines 701 and 445-452: process_chunks is called and sets up its locals
RunProcessCall ==
    /\ run_pc = "planned"
    /\ pc_results' = EmptyResults(run_chunks)
    /\ pc_failed' = <<>>
    /\ pc_pos' = 1
    /\ run_pc' = "processing"
    /\ UNCHANGED <<run_config, run_text, run_chunks, run_processed, run_failed,
                   final_document, output_written, summary, logger_entries, finalized,
                   run_requests, run_probes, run_extractions, run_exc>>
    /\ UNCHANGED <<planVars, mergeVars, genVars, procVars, valVars, clientVars, anonVars, maskVars, splitVars, httpVars, guiVars>>

\* lines 454-522: one iteration of the loop of process_chunks: client.generate is
\* called for the chunk and the outcome is logged; with abort_on_failure a failure
\* is raised again and leaves process_chunks and the try block
RunChunk ==
    /\ run_pc = "processing"
    /\ pc_pos <= Len(run_chunks)
    /\ run_requests' = Append(run_requests, run_chunks[pc_pos].index)
    /\ \E out \in GenerateOutcomes(run_chunks[pc_pos]) :
        LET chunk == run_chunks[pc_pos]
        IN  IF out.ret
            THEN /\ logger_entries' =
                        IF run_config.debug
                        THEN logger_entries \o <<ChunkEntry(chunk, out.response, "ok"),
                                                 DebugEntry(chunk, out.response)>>
                        ELSE Append(logger_entries, ChunkEntry(chunk, out.response, "ok"))
                 /\ pc_results' = [pc_results EXCEPT ![chunk.index] = out.response]
                 /\ pc_pos' = pc_pos + 1
                 /\ UNCHANGED <<pc_failed, run_pc, run_exc>>
            ELSE /\ logger_entries' = Append(logger_entries, ChunkEntry(chunk, <<>>, "error"))
                 /\ pc_failed' = RecordFailure(pc_failed, chunk.index)
                 /\ IF RaisesOnFailure(run_config.abort_on_failure)
                    THEN /\ run_exc' = out.exc
                         /\ run_pc' = "raised"
                         /\ UNCHANGED pc_pos
                    ELSE /\ pc_pos' = pc_pos + 1
                         /\ UNCHANGED <<run_pc, run_exc>>
                 /\ UNCHANGED pc_results
    /\ UNCHANGED <<run_config, run_text, run_chunks, run_processed, run_failed,
                   final_document, output_written, summary, finalized, run_probes,
                   run_extractions>>
    /\ UNCHANGED <<planVars, mergeVars, genVars, procVars, valVars, clientVars, anonVars, maskVars, splitVars, httpVars, guiVars>>

\* lines 524 and 701: process_chunks returns and its pair is assigned to
\* processed_chunks, failed_chunks
RunProcessReturn ==
    /\ run_pc = "processing"
    /\ pc_pos > Len(run_chunks)
    /\ run_processed' = pc_results
    /\ run_failed' = pc_failed
    /\ run_pc' = "processed"
    /\ UNCHANGED <<run_config, run_text, run_chunks, final_document, output_written,
                   summary, logger_entries, finalized, run_requests, run_probes,
                   run_extractions, pc_pos, pc_results, pc_failed, run_exc>>
    /\ UNCHANGED <<planVars, mergeVars, genVars, procVars, valVars, clientVars, anonVars, maskVars, splitVars, httpVars, guiVars>>

\* lines 709-735: the processed chunks are merged, the document is written, the
\* length metrics are stored and the comparison report is generated or, when its
\* generation raises, only a warning is printed
RunMergeWrite ==
    /\ run_pc = "processed"
    /\ final_document' = merge_chunks(run_chunks, run_processed).result
    /\ output_written' = Append(output_written, final_document')
    /\ \E diff_ok \in BOOLEAN :
           summary' = DictSet(DictSet(summary, "length_metrics",
                                      calculate_length_metrics(run_text, final_document')),
                              "diff_report_file",
                              IF diff_ok THEN "diff_report_file"
                              ELSE summary["diff_report_file"])
    /\ run_pc' = "written"
    /\ UNCHANGED <<run_config, run_text, run_chunks, run_processed, run_failed,
                   logger_entries, finalized, run_requests, run_probes, run_extractions,
                   pc_pos, pc_results, pc_failed, run_exc>>
    /\ UNCHANGED <<planVars, mergeVars, genVars, procVars, valVars, clientVars, anonVars, maskVars, splitVars, httpVars, guiVars>>

\* lines 737-753: detect_suspicious_edits and summary["validation"]
RunValidate ==
    /\ run_pc = "written"
    /\ LET suspicious_edits ==
               detect_suspicious_edits(run_text, final_document, DefaultMaxItems).suspicious
       IN  summary' = DictSet(summary, "validation",
                              SummaryValidation(ValidationOf(suspicious_edits)))
    /\ run_pc' = "validated"
    /\ UNCHANGED <<run_config, run_text, run_chunks, run_processed, run_failed,
                   final_document, output_written, logger_entries, finalized,
                   run_requests, run_probes, run_extractions, pc_pos, pc_results,
                   pc_failed, run_exc>>
    /\ UNCHANGED <<planVars, mergeVars, genVars, procVars, valVars, clientVars, anonVars, maskVars, splitVars, httpVars, guiVars>>

\* lines 755-764: the summary of a completed run
RunSucceed ==
    /\ run_pc = "validated"
    /\ summary' = SuccessUpdate(summary, run_chunks, run_failed)
    /\ run_pc' = "finally"
    /\ UNCHANGED <<run_config, run_text, run_chunks, run_processed, run_failed,
                   final_document, output_written, logger_entries, finalized,
                   run_requests, run_probes, run_extractions, pc_pos, pc_results,
                   pc_failed, run_exc>>
    /\ UNCHANGED <<planVars, mergeVars, genVars, procVars, valVars, clientVars, anonVars, maskVars, splitVars, httpVars, guiVars>>

\* lines 766-779: except Exception as exc
RunExcept ==
    /\ run_pc = "raised"
    /\ summary' = ErrorUpdate(summary, run_chunks, run_failed, run_exc)
    /\ run_pc' = "finally"
    /\ UNCHANGED <<run_config, run_text, run_chunks, run_processed, run_failed,
                   final_document, output_written, logger_entries, finalized,
                   run_requests, run_probes, run_extractions, pc_pos, pc_results,
                   pc_failed, run_exc>>
    /\ UNCHANGED <<planVars, mergeVars, genVars, procVars, valVars, clientVars, anonVars, maskVars, splitVars, httpVars, guiVars>>

\* lines 780-783: finally: logger.finalize(summary), and the return
RunFinalize ==
    /\ run_pc = "finally"
    /\ finalized' = Append(finalized, SummaryWithChunks(logger_entries, summary))
    /\ run_pc' = "returned"
    /\ UNCHANGED <<run_config, run_text, run_chunks, run_processed, run_failed,
                   final_document, output_written, summary, logger_entries,
                   run_requests, run_probes, run_extractions, pc_pos, pc_results,
                   pc_failed, run_exc>>
    /\ UNCHANGED <<planVars, mergeVars, genVars, procVars, valVars, clientVars, anonVars, maskVars, splitVars, httpVars, guiVars>>

RunNext ==
    \/ RunConnect
    \/ RunExtract
    \/ RunPlan
    \/ RunProcessCall
    \/ RunChunk
    \/ RunProcessReturn
    \/ RunMergeWrite
    \/ RunValidate
    \/ RunSucceed
    \/ RunExcept
    \/ RunFinalize

RunSpec == RunInit /\ [][RunNext]_vars

\* --------------------------------------------- anonymize_text: inputs and steps
AnonInit ==
    /\ a_text \in AnonTexts
    /\ entities_json \in AnonEntities
    /\ anon_pc = "called"
    /\ mapeo = <<>>
    /\ candidates = <<>>
    /\ anon_k = 0
    /\ texto_anonimizado = <<>>
    /\ PlanIdle
    /\ MergeIdle
    /\ GenIdle
    /\ ProcIdle
    /\ ValIdle
    /\ ClientIdle
    /\ RunIdle
    /\ MaskIdle
    /\ SplitIdle
    /\ HttpIdle
    /\ GuiIdle

\* lines 204-242: mapeo is filled, the text is copied and the keys are sorted
AnonBuildMapeo ==
    /\ anon_pc = "called"
    /\ mapeo' = build_mapeo(entities_json)
    /\ candidates' = SortedLongestFirst(mapeo')
    /\ texto_anonimizado' = a_text
    /\ anon_k' = 0
    /\ anon_pc' = "replacing"
    /\ UNCHANGED <<a_text, entities_json>>
    /\ UNCHANGED <<planVars, mergeVars, genVars, procVars, valVars, clientVars, runVars, maskVars, splitVars, httpVars, guiVars>>

\* lines 242-250: one iteration of the replacement loop
AnonSubstitute ==
    /\ anon_pc = "replacing"
    /\ anon_k < Len(candidates)
    /\ LET original == candidates[anon_k + 1]
       IN  texto_anonimizado' = re_sub(original, ValueOf(mapeo, original), texto_anonimizado)
    /\ anon_k' = anon_k + 1
    /\ UNCHANGED <<a_text, entities_json, anon_pc, mapeo, candidates>>
    /\ UNCHANGED <<planVars, mergeVars, genVars, procVars, valVars, clientVars, runVars, maskVars, splitVars, httpVars, guiVars>>

\* line 252: return texto_anonimizado, mapeo
AnonReturn ==
    /\ anon_pc = "replacing"
    /\ anon_k = Len(candidates)
    /\ anon_pc' = "returned"
    /\ UNCHANGED <<a_text, entities_json, mapeo, candidates, anon_k, texto_anonimizado>>
    /\ UNCHANGED <<planVars, mergeVars, genVars, procVars, valVars, clientVars, runVars, maskVars, splitVars, httpVars, guiVars>>

AnonNext == AnonBuildMapeo \/ AnonSubstitute \/ AnonReturn

AnonSpec == AnonInit /\ [][AnonNext]_vars

\* --------------------------------------------- pre_mask_text: inputs and steps
MaskInit ==
    /\ pm_text \in MaskTexts
    /\ mask_pc = "called"
    /\ pattern_k = 0
    /\ masked = <<>>
    /\ masks = <<>>
    /\ PlanIdle
    /\ MergeIdle
    /\ GenIdle
    /\ ProcIdle
    /\ ValIdle
    /\ ClientIdle
    /\ RunIdle
    /\ AnonIdle
    /\ SplitIdle
    /\ HttpIdle
    /\ GuiIdle

\* lines 35 and 46: masks = [], masked = text
PreMaskCall ==
    /\ mask_pc = "called"
    /\ masks' = <<>>
    /\ masked' = pm_text
    /\ pattern_k' = 0
    /\ mask_pc' = "applying"
    /\ UNCHANGED pm_text
    /\ UNCHANGED <<planVars, mergeVars, genVars, procVars, valVars, clientVars, runVars,
                   anonVars, splitVars, httpVars, guiVars>>

\* lines 47-48: one iteration of the loop: masked = apply(pattern, label, masked)
ApplyPattern ==
    /\ mask_pc = "applying"
    /\ pattern_k < Len(DEFAULT_PATTERNS)
    /\ LET applied == apply(DEFAULT_PATTERNS[pattern_k + 1][1],
                            DEFAULT_PATTERNS[pattern_k + 1][2], masked, masks)
       IN  /\ masked' = applied.out
           /\ masks' = applied.masks
    /\ pattern_k' = pattern_k + 1
    /\ UNCHANGED <<pm_text, mask_pc>>
    /\ UNCHANGED <<planVars, mergeVars, genVars, procVars, valVars, clientVars, runVars,
                   anonVars, splitVars, httpVars, guiVars>>

\* line 50: return masked, masks
PreMaskReturn ==
    /\ mask_pc = "applying"
    /\ pattern_k = Len(DEFAULT_PATTERNS)
    /\ mask_pc' = "returned"
    /\ UNCHANGED <<pm_text, pattern_k, masked, masks>>
    /\ UNCHANGED <<planVars, mergeVars, genVars, procVars, valVars, clientVars, runVars,
                   anonVars, splitVars, httpVars, guiVars>>

MaskNext == PreMaskCall \/ ApplyPattern \/ PreMaskReturn

MaskSpec == MaskInit /\ [][MaskNext]_vars

\* --------------------------------------------- split_with_overlap: inputs and steps
SplitInit ==
    /\ split_call \in SplitCalls
    /\ split_pc = "called"
    /\ split_spans = <<>>
    /\ available_tokens = 0
    /\ split_start = 0
    /\ split_chunks = <<>>
    /\ PlanIdle
    /\ MergeIdle
    /\ GenIdle
    /\ ProcIdle
    /\ ValIdle
    /\ ClientIdle
    /\ RunIdle
    /\ AnonIdle
    /\ MaskIdle
    /\ HttpIdle
    /\ GuiIdle

\* lines 57-62
SplitCall ==
    /\ split_pc = "called"
    /\ split_spans' = simple_tokenize(split_call.text)
    /\ available_tokens' = AvailableTokens(split_call.max_prompt_tokens,
                                           split_call.system_prompt_tokens,
                                           split_call.safety_factor)
    /\ split_chunks' = <<>>
    /\ split_start' = 0
    /\ split_pc' = "loop"
    /\ UNCHANGED split_call
    /\ UNCHANGED <<planVars, mergeVars, genVars, procVars, valVars, clientVars, runVars,
                   anonVars, maskVars, httpVars, guiVars>>

\* lines 64-75: one iteration of the while loop; the model follows the loop for at
\* most MaxSplitChunks iterations
SplitWindow ==
    /\ split_pc = "loop"
    /\ split_start < Len(split_spans)
    /\ Len(split_chunks) < MaxSplitChunks
    /\ LET token_end == Min(split_start + available_tokens, Len(split_spans))
       IN  /\ split_chunks' = Append(split_chunks,
                                     SplitChunk(split_call.text, split_spans, split_start, token_end))
           /\ IF token_end >= Len(split_spans)
              THEN split_pc' = "break" /\ UNCHANGED split_start
              ELSE /\ split_start' = SplitNextStart(token_end, split_call.overlap_tokens)
                   /\ UNCHANGED split_pc
    /\ UNCHANGED <<split_call, split_spans, available_tokens>>
    /\ UNCHANGED <<planVars, mergeVars, genVars, procVars, valVars, clientVars, runVars,
                   anonVars, maskVars, httpVars, guiVars>>

\* line 77, reached when the loop condition fails or after the break of line 73
SplitReturn ==
    /\ \/ split_pc = "loop" /\ split_start >= Len(split_spans)
       \/ split_pc = "break"
    /\ split_pc' = "returned"
    /\ UNCHANGED <<split_call, split_spans, available_tokens, split_start, split_chunks>>
    /\ UNCHANGED <<planVars, mergeVars, genVars, procVars, valVars, clientVars, runVars,
                   anonVars, maskVars, httpVars, guiVars>>

SplitNext == SplitCall \/ SplitWindow \/ SplitReturn

SplitSpec == SplitInit /\ [][SplitNext]_vars

\* --------------------------------------------- the HTTP service: requests
\* line 42: processed_files = {}; lines 355-363: TMP_DIR is emptied at startup
HttpInit ==
    /\ now = 0
    /\ processed_files = <<>>
    /\ disk = {}
    /\ uploads = 0
    /\ responses = <<>>
    /\ PlanIdle
    /\ MergeIdle
    /\ GenIdle
    /\ ProcIdle
    /\ ValIdle
    /\ ClientIdle
    /\ RunIdle
    /\ AnonIdle
    /\ MaskIdle
    /\ SplitIdle
    /\ GuiIdle

\* lines 81-225: POST /upload. Only the run that reaches line 176 stores an entry; its
\* output file was written by rebuild_document (line 170). A request that is refused
\* (400, 413) or fails (500) leaves processed_files alone.
UploadDocument ==
    /\ uploads < MaxUploads
    /\ Len(responses) < MaxRequests
    /\ \E outcome \in UploadOutcomes :
        LET file_id == uploads + 1
        IN  /\ IF outcome = 200
               THEN /\ processed_files' = (file_id :> FileInfo(file_id, now)) @@ processed_files
                    /\ disk' = disk \cup {file_id}
               ELSE UNCHANGED <<processed_files, disk>>
            /\ responses' = Append(responses, Response("upload", file_id, outcome, now))
    /\ uploads' = uploads + 1
    /\ UNCHANGED now
    /\ UNCHANGED <<planVars, mergeVars, genVars, procVars, valVars, clientVars, runVars,
                   anonVars, maskVars, splitVars, guiVars>>

\* lines 228-296: GET /download/{file_id}
DownloadDocument ==
    /\ Len(responses) < MaxRequests
    /\ \E file_id \in FileIds :
        IF file_id \notin DOMAIN processed_files
        THEN /\ responses' = Append(responses, Response("download", file_id, 404, now))
             /\ UNCHANGED <<processed_files, disk>>
        ELSE IF Expired(processed_files[file_id], now)
        THEN /\ disk' = disk \ {processed_files[file_id].output_path}
             /\ processed_files' = DictDel(processed_files, file_id)
             /\ responses' = Append(responses, Response("download", file_id, 410, now))
        ELSE IF processed_files[file_id].output_path \notin disk
        THEN /\ responses' = Append(responses, Response("download", file_id, 404, now))
             /\ UNCHANGED <<processed_files, disk>>
        ELSE /\ responses' = Append(responses, Response("download", file_id, 200, now))
             /\ UNCHANGED <<processed_files, disk>>
    /\ UNCHANGED <<now, uploads>>
    /\ UNCHANGED <<planVars, mergeVars, genVars, procVars, valVars, clientVars, runVars,
                   anonVars, maskVars, splitVars, guiVars>>

\* lines 383-408: GET /api/status, which calls cleanup_expired_files (lines 365-380)
GetStatus ==
    /\ Len(responses) < MaxRequests
    /\ LET expired_ids == ExpiredIds(processed_files, now)
       IN  /\ disk' = disk \ {processed_files[f].output_path : f \in expired_ids}
           /\ processed_files' = [f \in (DOMAIN processed_files) \ expired_ids |-> processed_files[f]]
    /\ responses' = Append(responses, Response("status", 0, 200, now))
    /\ UNCHANGED <<now, uploads>>
    /\ UNCHANGED <<planVars, mergeVars, genVars, procVars, valVars, clientVars, runVars,
                   anonVars, maskVars, splitVars, guiVars>>

\* time passes between requests
Tick ==
    /\ now < MaxClock
    /\ now' = now + 1
    /\ UNCHANGED <<processed_files, disk, uploads, responses>>
    /\ UNCHANGED <<planVars, mergeVars, genVars, procVars, valVars, clientVars, runVars,
                   anonVars, maskVars, splitVars, guiVars>>

HttpNext == UploadDocument \/ DownloadDocument \/ GetStatus \/ Tick

HttpSpec == HttpInit /\ [][HttpNext]_vars

\* --------------------------------------------- AnonymizerApp: the two threads
\* lines 797-810: AnonymizerApp.__init__
GuiInit ==
    /\ run_in_progress = FALSE
    /\ start_button = "normal"
    /\ log_queue = <<>>
    /\ gui_pc = "idle"
    /\ workers = <<>>
    /\ start_log = <<>>
    /\ emitted = <<>>
    /\ consumed = <<>>
    /\ PlanIdle
    /\ MergeIdle
    /\ GenIdle
    /\ ProcIdle
    /\ ValIdle
    /\ ClientIdle
    /\ RunIdle
    /\ AnonIdle
    /\ MaskIdle
    /\ SplitIdle
    /\ HttpIdle

\* lines 1112-1161: _start_processing, called on the foreground thread between two
\* callbacks. _prepare_run_ui (line 1167) disables the button; RunLogger(...) of line
\* 1137 runs after run_in_progress was set, and when it raises no worker is started.
StartProcessing ==
    /\ gui_pc = "idle"
    /\ Len(start_log) < MaxStarts
    /\ \E input \in StartInputs :
        IF start_ignored(run_in_progress)
        THEN /\ start_log' = Append(start_log, "ignored")
             /\ UNCHANGED <<run_in_progress, start_button, workers, emitted, consumed>>
        ELSE IF ~input.file_ok
        THEN /\ start_log' = Append(start_log, "no_file")
             /\ UNCHANGED <<run_in_progress, start_button, workers, emitted, consumed>>
        ELSE IF ~input.config_ok
        THEN /\ start_log' = Append(start_log, "bad_config")
             /\ UNCHANGED <<run_in_progress, start_button, workers, emitted, consumed>>
        ELSE /\ start_button' = "disabled"
             /\ run_in_progress' = TRUE
             /\ IF ~input.logger_ok
                THEN /\ start_log' = Append(start_log, "logger_failed")
                     /\ UNCHANGED <<workers, emitted, consumed>>
                ELSE /\ start_log' = Append(start_log, "started")
                     /\ workers' = Append(workers, [pc |-> "running", todo |-> input.script, put |-> 0])
                     /\ emitted' = Append(emitted, <<>>)
                     /\ consumed' = Append(consumed, <<>>)
    /\ UNCHANGED <<log_queue, gui_pc>>
    /\ UNCHANGED <<planVars, mergeVars, genVars, procVars, valVars, clientVars, runVars,
                   anonVars, maskVars, splitVars, httpVars>>

\* lines 1179-1183, called from run_anonymization on the worker thread: one put
WorkerEmit ==
    /\ \E w \in 1..Len(workers) :
        /\ workers[w].pc = "running"
        /\ Len(workers[w].todo) > 0
        /\ LET item == QueueItem(Head(workers[w].todo), w, workers[w].put + 1)
           IN  /\ log_queue' = Append(log_queue, item)
               /\ emitted' = [emitted EXCEPT ![w] = Append(@, item)]
        /\ workers' = [workers EXCEPT ![w].todo = Tail(@), ![w].put = @ + 1]
    /\ UNCHANGED <<run_in_progress, start_button, gui_pc, start_log, consumed>>
    /\ UNCHANGED <<planVars, mergeVars, genVars, procVars, valVars, clientVars, runVars,
                   anonVars, maskVars, splitVars, httpVars>>

\* lines 1144-1158: run_anonymization returned or raised; the worker puts its "done"
\* item and ends
WorkerDone ==
    /\ \E w \in 1..Len(workers) :
        /\ workers[w].pc = "running"
        /\ Len(workers[w].todo) = 0
        /\ LET item == QueueItem("done", w, workers[w].put + 1)
           IN  /\ log_queue' = Append(log_queue, item)
               /\ emitted' = [emitted EXCEPT ![w] = Append(@, item)]
        /\ workers' = [workers EXCEPT ![w].pc = "ended", ![w].put = @ + 1]
    /\ UNCHANGED <<run_in_progress, start_button, gui_pc, start_log, consumed>>
    /\ UNCHANGED <<planVars, mergeVars, genVars, procVars, valVars, clientVars, runVars,
                   anonVars, maskVars, splitVars, httpVars>>

\* line 1185: the timer of line 810 or line 1203 fires and _process_log_queue begins
PollQueue ==
    /\ gui_pc = "idle"
    /\ gui_pc' = "draining"
    /\ UNCHANGED <<run_in_progress, start_button, log_queue, workers, start_log, emitted,
                   consumed>>
    /\ UNCHANGED <<planVars, mergeVars, genVars, procVars, valVars, clientVars, runVars,
                   anonVars, maskVars, splitVars, httpVars>>

\* lines 1187-1199: one iteration of the loop: get_nowait and the dispatch on the kind;
\* a "done" item goes to _handle_completion (lines 1223-1225)
ProcessItem ==
    /\ gui_pc = "draining"
    /\ Len(log_queue) > 0
    /\ LET item == Head(log_queue)
       IN  /\ consumed' = [consumed EXCEPT ![item.run] = Append(@, item)]
           /\ IF item.kind = "done"
              THEN start_button' = "normal" /\ run_in_progress' = FALSE
              ELSE UNCHANGED <<start_button, run_in_progress>>
    /\ log_queue' = Tail(log_queue)
    /\ UNCHANGED <<gui_pc, workers, start_log, emitted>>
    /\ UNCHANGED <<planVars, mergeVars, genVars, procVars, valVars, clientVars, runVars,
                   anonVars, maskVars, splitVars, httpVars>>

\* lines 1200-1203: get_nowait raises queue.Empty; the next poll is scheduled
PollEnd ==
    /\ gui_pc = "draining"
    /\ Len(log_queue) = 0
    /\ gui_pc' = "idle"
    /\ UNCHANGED <<run_in_progress, start_button, log_queue, workers, start_log, emitted,
                   consumed>>
    /\ UNCHANGED <<planVars, mergeVars, genVars, procVars, valVars, clientVars, runVars,
                   anonVars, maskVars, splitVars, httpVars>>

GuiNext == StartProcessing \/ WorkerEmit \/ WorkerDone \/ PollQueue \/ ProcessItem \/ PollEnd

GuiSpec == GuiInit /\ [][GuiNext]_vars

\* ------------------------------------------------------ claims: planner
PlanReturned == plan_pc = "planned" /\ plan.err = "none"

\* C1: for a non-empty text, max_tokens >= 1, safety_factor in (0, 1] and
\* overlap_tokens = 0, build_chunks returns (does not raise) a non-empty chunk list
\* whose first chunk starts at token 0, whose last chunk ends at the number of
\* spans, and in which no chunk starts beyond the largest token_end before it.
C1_Coverage ==
    (/\ plan_pc = "planned"
     /\ Len(text) > 0
     /\ max_tokens >= 1
     /\ ValidSafetyFactor(safety_factor)
     /\ overlap_tokens = 0)
    => /\ plan.err = "none"
       /\ Len(plan.chunks) > 0
       /\ plan.chunks[1].token_start = 0
       /\ plan.chunks[Len(plan.chunks)].token_end = Len(spans)
       /\ \A i \in 2..Len(plan.chunks) :
              \E j \in 1..(i - 1) : plan.chunks[i].token_start <= plan.chunks[j].token_end

C1_Witness ==
    /\ PlanReturned
    /\ max_tokens >= 1 /\ ValidSafetyFactor(safety_factor) /\ overlap_tokens = 0
    /\ Len(plan.chunks) >= 3

\* C2: the returned chunks partition the span sequence: token_start strictly
\* increases, each chunk starts (in tokens and in characters) exactly where the
\* one before it ends, so no token and no character lies in two chunks.
C2_Partition ==
    PlanReturned =>
        /\ \A i \in 1..(Len(plan.chunks) - 1) :
              /\ plan.chunks[i].token_start < plan.chunks[i + 1].token_start
              /\ plan.chunks[i + 1].token_start = plan.chunks[i].token_end
              /\ plan.chunks[i + 1].char_start = plan.chunks[i].char_end
        /\ \A i, j \in 1..Len(plan.chunks) :
              i < j => /\ plan.chunks[i].token_end <= plan.chunks[j].token_start
                       /\ plan.chunks[i].char_end <= plan.chunks[j].char_start

C2_Witness ==
    /\ PlanReturned
    /\ Len(plan.chunks) >= 2
    /\ \E i \in 1..Len(plan.chunks) : plan.chunks[i].token_end - plan.chunks[i].token_start >= 2

\* C3: the token texts of tokenize_with_spans, and those of _simple_tokenize,
\* concatenated in order, give back the input text exactly, whatever the text
\* (empty, whitespace only, without whitespace).
C3_RoundTrip ==
    /\ plan_pc # "input" => Concat([i \in 1..Len(spans) |-> spans[i].token]) = text
    /\ plan_pc \in {"tokenized", "planned"} =>
           Concat([i \in 1..Len(tokens) |-> tokens[i].text]) = text

C3_Witness ==
    /\ plan_pc = "tokenized"
    /\ Len(text) > 0
    /\ \A i \in 1..Len(text) : IsSpace(text[i])
    /\ Len(spans) = 1 /\ Len(tokens) = 1

\* C4: the spans of tokenize_with_spans cover [0, len(text)) without gap or
\* overlap: the first starts at 0, each ends where the next starts, the last ends
\* at len(text), none is empty, and the empty text has no span.
C4_GapFreeCover ==
    plan_pc # "input" =>
        /\ Len(text) = 0 => spans = <<>>
        /\ Len(text) > 0 => /\ Len(spans) > 0
                            /\ spans[1].start = 0
                            /\ spans[Len(spans)].end = Len(text)
        /\ \A i \in 1..Len(spans) : spans[i].end > spans[i].start
        /\ \A i \in 1..(Len(spans) - 1) : spans[i].end = spans[i + 1].start

C4_Witness ==
    /\ plan_pc = "spanned"
    /\ Len(spans) >= 3
    /\ IsSpace(text[1])
    /\ spans[1].end < spans[2].end

\* ------------------------------------------------------ claims: merger
RangesIntersect(c, d) == Max(c.char_start, d.char_start) < Min(c.char_end, d.char_end)

Accepted == {merged.locals.accepted[k] : k \in 1..Len(merged.locals.accepted)}

\* C5: every chunk that is not skipped for overlap contributes, at its position in
\* the output, its processed text, or its own original text when the processed
\* result is empty; the output is these parts in chunk order, and a chunk that
\* overlaps no earlier accepted chunk is never left out.
C5_FallbackToOriginal ==
    merge_pc = "merged" =>
        LET acc == merged.locals.accepted
            parts == merged.locals.merged_parts
        IN  /\ Len(parts) = Len(acc)
            /\ \A k \in 1..(Len(acc) - 1) : acc[k] < acc[k + 1]
            /\ \A k \in 1..Len(acc) :
                   parts[k] = IF m_processed[acc[k]] = <<>>
                              THEN m_chunks[acc[k]].text
                              ELSE m_processed[acc[k]]
            /\ merged.result = Concat(parts)
            /\ \A i \in 1..Len(m_chunks) :
                   i \in Accepted
                   \/ \E j \in Accepted : j < i /\ RangesIntersect(m_chunks[j], m_chunks[i])

C5_Witness ==
    /\ merge_pc = "merged"
    /\ Len(m_chunks) = 3
    /\ Len(merged.locals.accepted) = 2
    /\ m_processed[merged.locals.accepted[1]] # <<>>
    /\ m_processed[merged.locals.accepted[2]] = <<>>
    /\ merged.result = <<"#">> \o m_chunks[merged.locals.accepted[2]].text

\* C6: a chunk whose character range overlaps the range of an earlier accepted
\* chunk is skipped, so the accepted ranges are pairwise disjoint; of the chunks
\* that carry one and the same range only the first can be accepted, and it is
\* accepted whenever it overlaps no earlier accepted chunk.
C6_NoOverlapInMerge ==
    merge_pc = "merged" =>
        /\ \A i \in 1..Len(m_chunks) :
               (\E j \in Accepted : j < i /\ RangesIntersect(m_chunks[j], m_chunks[i]))
               => i \notin Accepted
        /\ \A i, j \in Accepted : i # j => ~RangesIntersect(m_chunks[i], m_chunks[j])
        /\ \A i, j \in 1..Len(m_chunks) :
               (/\ i < j
                /\ m_chunks[i].char_start = m_chunks[j].char_start
                /\ m_chunks[i].char_end = m_chunks[j].char_end)
               => /\ j \notin Accepted
                  /\ (\A h \in Accepted : h < i => ~RangesIntersect(m_chunks[h], m_chunks[i]))
                     => i \in Accepted

C6_Witness ==
    /\ merge_pc = "merged"
    /\ Len(m_chunks) = 3
    /\ m_chunks[1].char_start = m_chunks[2].char_start
    /\ m_chunks[1].char_end = m_chunks[2].char_end
    /\ merged.locals.accepted = <<1, 3>>
    /\ m_processed = <<<<>>, <<>>, <<>>>>
    /\ merged.result = m_chunks[1].text \o m_chunks[3].text

\* ------------------------------------------------------ claims: client
AttemptFailed(k) == attempt_log[k].exc # NoExc

HasNonSpace(t) == \E i \in 1..Len(t) : ~IsSpace(t[i])

\* C7: generate stops at the first successful attempt, issues at most
\* max_retries + 1 requests and exactly max_retries + 1 when every attempt fails,
\* and logs one WARN for each failed attempt that is followed by another attempt.
C7_RetryCount ==
    /\ requests <= Max(0, max_retries + 1)
    /\ requests = Len(attempt_log)
    /\ \A k \in 1..(Len(attempt_log) - 1) : AttemptFailed(k)
    /\ gen_pc = "returned" =>
           /\ ~AttemptFailed(Len(attempt_log))
           /\ gen_out.content = attempt_log[Len(attempt_log)].resp.content
           /\ Len(warns) = requests - 1
    /\ (gen_pc = "raised" /\ max_retries >= 0) =>
           /\ requests = max_retries + 1
           /\ Len(warns) = max_retries

\* C8: for max_retries >= 0, when all max_retries + 1 attempts have failed,
\* generate has raised a RuntimeError whose cause is the exception of the last
\* attempt, and it has returned nothing.
C8_TerminalError ==
    (/\ max_retries >= 0
     /\ Len(attempt_log) = max_retries + 1
     /\ \A k \in 1..Len(attempt_log) : AttemptFailed(k))
    => /\ gen_pc = "raised"
       /\ gen_out.kind = "raised"
       /\ gen_out.exc.type = "RuntimeError"
       /\ gen_out.cause = attempt_log[Len(attempt_log)].exc
       /\ gen_out.cause.at = max_retries

BlankResponse(resp) ==
    \/ resp.kind \in {"no_content", "content_null"}
    \/ resp.kind = "content" /\ \A i \in 1..Len(resp.content) : IsSpace(resp.content[i])

\* C9: a value generate returns has a non-whitespace character; an attempt whose
\* content is empty, missing or whitespace-only is a failed attempt: it is
\* followed by another attempt while retries are left, and by the terminal
\* RuntimeError otherwise; it is never returned.
C9_NeverReturnsBlank ==
    /\ gen_pc = "returned" => gen_out.kind = "returned" /\ HasNonSpace(gen_out.content)
    /\ gen_out.kind = "returned" => gen_pc = "returned"
    /\ \A k \in 1..Len(attempt_log) :
           BlankResponse(attempt_log[k].resp) =>
               /\ attempt_log[k].exc.type \in {"ValueError", "KeyError"}
               /\ IF k <= max_retries
                  THEN Len(attempt_log) > k \/ gen_pc = "attempting"
                  ELSE gen_pc = "raised" /\ gen_out.exc.type = "RuntimeError"

C9_Witness ==
    /\ gen_pc = "returned"
    /\ Len(attempt_log) = 3
    /\ attempt_log[1].resp = [kind |-> "content", content |-> <<" ">>]
    /\ attempt_log[2].resp = [kind |-> "content", content |-> <<>>]
    /\ gen_out.content = <<" ", "a", " ">>

\* ------------------------------------------------------ claims: processor
\* the records of chunk_entries other than the debug records, in order
RECURSIVE NonDebug(_)
NonDebug(entries) ==
    IF Len(entries) = 0 THEN <<>>
    ELSE IF Head(entries).status = "debug" THEN NonDebug(Tail(entries))
    ELSE <<Head(entries)>> \o NonDebug(Tail(entries))

\* C10: client.generate is called once per chunk, in increasing chunk-index order,
\* each time with that chunk's text; the call for a chunk starts only when the
\* outcome of every chunk before it has been recorded; and with abort-on-failure
\* off process_chunks ends only by returning, after every chunk was attempted.
C10_OneCallPerChunkInOrder ==
    proc_pc \in {"loop", "in_call", "returned", "raised"} =>
        LET recorded == NonDebug(chunk_entries)
        IN  /\ Len(calls) <= Len(p_chunks)
            /\ \A k \in 1..Len(calls) :
                   /\ calls[k][1] = k
                   /\ p_chunks[k].index = k
                   /\ calls[k][2] = p_chunks[k].text
            /\ Len(recorded) = IF proc_pc = "in_call" THEN Len(calls) - 1 ELSE Len(calls)
            /\ \A k \in 1..Len(recorded) : recorded[k].chunk_index = k
            /\ proc_pc = "returned" => Len(calls) = Len(p_chunks)
            /\ ~abort_on_failure => proc_pc # "raised"

C10_Witness ==
    /\ proc_pc = "returned"
    /\ ~abort_on_failure
    /\ Len(p_chunks) = 3
    /\ failed_chunks = <<2>>
    /\ Len(calls) = 3

\* ------------------------------------------------------------------ C11
\* the chunk indexes of the entries logged with status "error", in log order
RECURSIVE ErrorIndexes(_)
ErrorIndexes(entries) ==
    IF Len(entries) = 0 THEN <<>>
    ELSE IF Head(entries).status = "error"
         THEN <<Head(entries).chunk_index>> \o ErrorIndexes(Tail(entries))
         ELSE ErrorIndexes(Tail(entries))

\* C11: with abort_on_failure false, when client.generate fails for chunk i the
\* index i is appended to failed_chunks (which is exactly the failed indexes in
\* order), results[i] stays the empty placeholder, process_chunks does not raise,
\* the loop goes on to chunk i + 1, and it returns only after every chunk was
\* attempted.
C11_FailureIsRecordedAndSkipped ==
    (~abort_on_failure /\ proc_pc \in {"loop", "in_call", "returned", "raised"}) =>
        LET recorded == NonDebug(chunk_entries)
        IN  /\ proc_pc # "raised"
            /\ proc_exc = "None"
            /\ failed_chunks = ErrorIndexes(recorded)
            /\ \A k \in 1..Len(recorded) :
                   recorded[k].status = "error" =>
                       /\ \E j \in 1..Len(failed_chunks) : failed_chunks[j] = k
                       /\ results[k] = <<>>
            /\ proc_pc = "loop" => pos = Len(recorded) + 1
            /\ proc_pc = "in_call" => pos = Len(recorded) + 1 /\ Len(calls) = pos
            /\ proc_pc = "returned" =>
                   /\ Len(calls) = Len(p_chunks)
                   /\ Len(recorded) = Len(p_chunks)

C11_Witness ==
    /\ ~abort_on_failure
    /\ proc_pc = "returned"
    /\ Len(p_chunks) = 3
    /\ failed_chunks = <<1, 3>>
    /\ results[1] = <<>>
    /\ results[2] # <<>>
    /\ Len(calls) = 3

\* ------------------------------------------------------------------ C12
\* C12: with abort_on_failure true, when client.generate fails for chunk i the
\* notification (i, total) is emitted, the exception of generate leaves
\* process_chunks, no call is made for a chunk after i, and process_chunks ends
\* early only this way: after the outcome of the call in flight was recorded.
C12_AbortAtChunkBoundary ==
    LET recorded == NonDebug(chunk_entries)
        errors == ErrorIndexes(recorded)
    IN  /\ (abort_on_failure /\ Len(errors) > 0) =>
               /\ proc_pc = "raised"
               /\ Len(errors) = 1
               /\ recorded[Len(recorded)].status = "error"
               /\ errors[1] = Len(recorded)
               /\ Len(calls) = errors[1]
               /\ \A k \in 1..Len(calls) : calls[k][1] <= errors[1]
               /\ proc_exc \in {"RuntimeError", "AttributeError"}
               /\ progress_callback =>
                      /\ Len(progress) > 0
                      /\ progress[Len(progress)] = <<errors[1], Len(p_chunks)>>
        /\ proc_pc = "raised" =>
               /\ abort_on_failure
               /\ Len(errors) = 1
               /\ Len(recorded) = Len(calls)

C12_Witness ==
    /\ abort_on_failure
    /\ progress_callback
    /\ proc_pc = "raised"
    /\ Len(p_chunks) = 3
    /\ failed_chunks = <<2>>
    /\ Len(calls) = 2
    /\ progress[Len(progress)] = <<2, 3>>

\* ------------------------------------------------------------------ C13
\* C13: the notifications of process_chunks are (0, total), (1, total), ... in
\* this order: (0, total) precedes the first call of client.generate, the call
\* for chunk i starts with (i - 1, total) as the latest notification and its
\* outcome is followed by (i, total); the completed count never decreases, and a
\* run that attempted every chunk ends with (total, total). Without a callback
\* nothing is notified.
C13_ProgressSequence ==
    proc_pc \in {"loop", "in_call", "returned", "raised"} =>
        LET total == Len(p_chunks)
        IN  IF progress_callback
            THEN /\ Len(progress) >= 1
                 /\ progress[1] = <<0, total>>
                 /\ \A k \in 1..Len(progress) : progress[k] = <<k - 1, total>>
                 /\ \A k \in 1..(Len(progress) - 1) : progress[k][1] <= progress[k + 1][1]
                 /\ proc_pc = "in_call" =>
                        progress[Len(progress)] = <<Len(calls) - 1, total>>
                 /\ proc_pc \in {"loop", "returned", "raised"} =>
                        progress[Len(progress)] = <<Len(calls), total>>
                 /\ (proc_pc \in {"returned", "raised"} /\ Len(calls) = total) =>
                        progress[Len(progress)] = <<total, total>>
            ELSE progress = <<>>

C13_Witness ==
    /\ progress_callback
    /\ proc_pc = "returned"
    /\ Len(p_chunks) = 3
    /\ progress = <<<<0, 3>>, <<1, 3>>, <<2, 3>>, <<3, 3>>>>
    /\ failed_chunks = <<2>>

\* ------------------------------------------------------------------ C18
PlanEnded == plan_pc \in {"planned", "run_planned"}

\* C18: an overlap_tokens other than 0, positive or negative, is rejected before
\* any chunk exists: build_chunks called directly raises its overlap error, and a
\* run whose configuration holds such a value ends in error without chunks; the
\* value is never replaced by 0.
C18_NonZeroOverlapRejected ==
    (PlanEnded /\ overlap_tokens # 0) =>
        /\ plan.err # "none"
        /\ plan.chunks = <<>>

\* ------------------------------------------------------------------ C19
\* C19: with max_context_tokens <= 0, or a safety_factor outside (0, 1], planning
\* ends in an error and no chunk is planned, whether build_chunks is called
\* directly or by run_anonymization.
C19_InvalidConfigRejected ==
    (PlanEnded /\ (max_tokens <= 0 \/ ~ValidSafetyFactor(safety_factor))) =>
        /\ plan.err # "none"
        /\ plan.chunks = <<>>

\* ------------------------------------------------------------------ C20
\* floor(max_tokens * safety_factor), the safety factor being num / den with den > 0
Floored(m, sf) == (m * sf[1]) \div sf[2]

Capacity(m, sf) == Max(1, Floored(m, sf))

Detected == val_pc \in {"detected", "validated"}

\* t from position p on is made of recognized placeholders and whitespace only
RECURSIVE MadeOfPlaceholders(_, _)
MadeOfPlaceholders(t, p) ==
    IF p >= Len(t) THEN TRUE
    ELSE \/ IsSpace(t[p + 1]) /\ MadeOfPlaceholders(t, p + 1)
         \/ \E k \in 1..Len(PLACEHOLDER_TOKENS) :
                /\ StartsWithAt(t, PLACEHOLDER_TOKENS[k], p)
                /\ MadeOfPlaceholders(t, p + Len(PLACEHOLDER_TOKENS[k]))

\* at least one recognized placeholder, and nothing else but whitespace
PlaceholdersOnly(t) == HasNonSpace(t) /\ MadeOfPlaceholders(t, 0)

\* the opcodes the claim says are reported
ClaimReports(op) ==
    LET original_segment == Slice(original_text, op.i1, op.i2)
        anonymized_segment == Slice(anonymized_text, op.j1, op.j2)
    IN  /\ op.tag # "equal"
        /\ HasNonSpace(original_segment) \/ HasNonSpace(anonymized_segment)
        /\ op.tag \in {"replace", "insert"} => ~PlaceholdersOnly(anonymized_segment)
        /\ op.tag = "delete" => HasNonSpace(original_segment)

RECURSIVE ClaimReportedFrom(_, _)
ClaimReportedFrom(opcodes, k) ==
    IF k > Len(opcodes) THEN <<>>
    ELSE (IF ClaimReports(opcodes[k])
          THEN <<SuspiciousRecord(opcodes[k], original_text, anonymized_text)>>
          ELSE <<>>)
         \o ClaimReportedFrom(opcodes, k + 1)

\* C14: as long as the cap is not reached, the records detect_suspicious_edits
\* returns are those of the opcodes that are not equal, not blank on both sides,
\* not a replace or insert whose transformed segment is made of recognized
\* placeholders and whitespace only, and not a delete of a blank segment.
C14_OpcodeClassification ==
    (Detected /\ Len(detected.suspicious) < max_items) =>
        detected.suspicious = ClaimReportedFrom(detected.opcodes, 1)

\* ------------------------------------------------------------------ C15
\* C15: when the final document is the original with a name replaced by
\* [NOMBRE APELLIDO] nothing is returned, and when it is the original without one
\* segment that is not blank exactly one record is returned, of type delete.
C15_DivergenceTolerance ==
    Detected =>
        /\ edit_kind = "redaction" => detected.suspicious = <<>>
        /\ edit_kind = "deletion" =>
               /\ Len(detected.suspicious) = 1
               /\ detected.suspicious[1].type = "delete"

\* ------------------------------------------------------------------ C16
\* C16: for every max_items >= 0 detect_suspicious_edits returns at most max_items
\* records.
C16_AtMostMaxItems ==
    Detected => Len(detected.suspicious) <= max_items

\* ------------------------------------------------------------------ C17
\* the number of opcodes detect_suspicious_edits does not pass over
SuspiciousCount ==
    Cardinality({k \in 1..Len(detected.opcodes) :
                    ~Skipped(detected.opcodes[k], original_text, anonymized_text)})

\* C17: when more opcodes are suspicious than the cap (a cap of at least 1) the
\* loop still looks at every opcode, and the count that summary["validation"] and
\* the console give is the number of all suspicious opcodes.
C17_BeyondCapCounted ==
    (Detected /\ max_items >= 1 /\ SuspiciousCount > max_items) =>
        /\ detected.scanned = Len(detected.opcodes)
        /\ val_pc = "validated" => validation.logged = SuspiciousCount

\* ------------------------------------------------------------------ C21
\* C21: the k-th wait of generate lasts backoff_seconds * k and follows its k-th
\* failed attempt; a failure the except clause catches is followed by its wait
\* while k <= max_retries; there is no wait after the last attempt, failed or
\* not, so that the waits are one fewer than the attempts once generate has ended.
C21_LinearBackoff ==
    /\ \A k \in 1..Len(sleeps) :
           /\ sleeps[k] = backoff_seconds * k
           /\ k <= max_retries
           /\ AttemptFailed(k)
    /\ \A k \in 1..Len(attempt_log) :
           (attempt_log[k].exc.type \in CaughtTypes /\ k <= max_retries) =>
               Len(sleeps) >= k
    /\ gen_pc = "attempting" => Len(sleeps) = Len(attempt_log)
    /\ gen_pc \in {"returned", "raised"} => Len(sleeps) = Max(0, Len(attempt_log) - 1)

C21_Witness ==
    /\ gen_pc = "returned"
    /\ backoff_seconds = 2
    /\ max_retries = 2
    /\ sleeps = <<2, 4>>
    /\ Len(attempt_log) = 3

\* ------------------------------------------------------------------ C22
\* C22: a failed attempt of any kind, made while retries are left, is followed by
\* another attempt, and generate raises only its RuntimeError, after the last
\* attempt allowed.
C22_EveryFailureRetried ==
    max_retries >= 0 =>
        /\ \A k \in 1..Len(attempt_log) :
               (AttemptFailed(k) /\ k <= max_retries) =>
                   Len(attempt_log) > k \/ gen_pc = "attempting"
        /\ gen_pc = "raised" =>
               /\ gen_out.exc.type = "RuntimeError"
               /\ Len(attempt_log) = max_retries + 1

\* ------------------------------------------------------------------ C23
\* C23: the payload has temperature 0.0, top_p 1.0 and top_k 1 whatever the caller
\* gave; it has the caller's repeat_penalty, and the caller's stop_sequences under
\* the key stop (no key stop_sequences is left); the caller's dict is as the
\* caller built it, and so is self.inference_params after the payload was made.
C23_DeterministicPayload ==
    /\ client_pc \in {"new", "constructed", "payload"} => heap[1] = caller_params
    /\ client_pc \in {"constructed", "payload"} =>
           /\ self_params # 1
           /\ heap[self_params].temperature = "0.0"
           /\ heap[self_params].top_p = "1.0"
           /\ heap[self_params].top_k = 1
    /\ client_pc = "payload" =>
           LET payload == heap[payload_ref]
           IN  /\ payload.temperature = "0.0"
               /\ payload.top_p = "1.0"
               /\ payload.top_k = 1
               /\ payload.model = "model"
               /\ Len(payload.messages) = 2
               /\ "repeat_penalty" \in DOMAIN caller_params =>
                      payload.repeat_penalty = caller_params.repeat_penalty
               /\ "stop_sequences" \notin DOMAIN payload
               /\ "stop_sequences" \in DOMAIN caller_params =>
                      payload.stop = caller_params.stop_sequences
               /\ ("stop_sequences" \notin DOMAIN caller_params
                   /\ "stop" \in DOMAIN caller_params) =>
                      payload.stop = caller_params.stop
               /\ ("stop_sequences" \notin DOMAIN caller_params
                   /\ "stop" \notin DOMAIN caller_params) =>
                      "stop" \notin DOMAIN payload

C23_Witness ==
    /\ client_pc = "payload"
    /\ "temperature" \in DOMAIN caller_params
    /\ caller_params.temperature = "0.7"
    /\ "top_k" \in DOMAIN caller_params
    /\ "repeat_penalty" \in DOMAIN caller_params
    /\ caller_params.repeat_penalty = "1.1"
    /\ "stop_sequences" \in DOMAIN caller_params
    /\ caller_params.stop_sequences = <<"x">>
    /\ heap[payload_ref].stop = <<"x">>
    /\ heap[payload_ref].temperature = "0.0"

\* ------------------------------------------------------------------ C27
\* a chunk starts beyond the end of everything before it
ChunkGap(chunks) ==
    \E j \in 1..Len(chunks) :
        /\ chunks[j].token_start > 0
        /\ \A i \in 1..(j - 1) : chunks[i].token_end < chunks[j].token_start

\* a chunk starts before the end of an earlier chunk (a repeated range included)
ChunkOverlap(chunks) ==
    \E i, j \in 1..Len(chunks) :
        i < j /\ chunks[j].token_start < chunks[i].token_end

\* the chunks do not start at the first token or do not end at the last
ChunkMiscoverage(chunks, total_tokens) ==
    \/ Len(chunks) = 0
    \/ chunks[1].token_start # 0
    \/ chunks[Len(chunks)].token_end # total_tokens

\* C27: validate_chunk_sequence raises for every chunk sequence with a gap, an
\* overlap or a miscoverage, and merge_chunks skips no chunk.
C27_StructuralViolationFatal ==
    /\ (/\ m_verdict \notin {"pending", "unused"}
        /\ \/ ChunkGap(m_chunks)
           \/ ChunkOverlap(m_chunks)
           \/ ChunkMiscoverage(m_chunks, MergeDocTokens))
       => m_verdict # "none"
    /\ merge_pc = "merged" => \A i \in 1..Len(m_chunks) : i \in Accepted

\* ------------------------------------------------------------------ C30
\* C30: each chunk whose call of client.generate has ended, with a value or an
\* exception, has exactly one record other than debug records in the chunk log;
\* that record has the input and output lengths, the length ratio, the elapsed
\* time, and previews of input and output of at most 120 characters and an
\* ellipsis, which for a longer text are not the text; the raw input and output
\* are in debug records only, and debug records exist only in debug mode.
C30_OneBoundedRecordPerChunk ==
    proc_pc \in {"loop", "in_call", "returned", "raised"} =>
        LET recorded == NonDebug(chunk_entries)
        IN  /\ Len(recorded) = IF proc_pc = "in_call" THEN Len(calls) - 1 ELSE Len(calls)
            /\ \A k \in 1..Len(recorded) :
                   LET e == recorded[k]
                       chunk == p_chunks[k]
                   IN  /\ e.chunk_index = k
                       /\ e.char_length = Len(chunk.text)
                       /\ {"output_char_length", "length_ratio", "duration_seconds"}
                              \subseteq DOMAIN e
                       /\ {"input_preview", "output_preview"} \subseteq DOMAIN e
                       /\ Len(e.input_preview) <= PreviewChars + 3
                       /\ Len(e.output_preview) <= PreviewChars + 3
                       /\ Len(chunk.text) > PreviewChars => e.input_preview # chunk.text
                       /\ {"raw_input", "raw_output"} \cap DOMAIN e = {}
            /\ \A k \in 1..Len(chunk_entries) :
                   chunk_entries[k].status = "debug" => debug_mode

\* ------------------------------------------------------ claims: run_anonymization
HealthProbeFailed == run_pc \notin {"unused", "start"} /\ run_config.lm_keys /\ ~run_config.health_ok

\* C24: when the health probe fails, check_health has been called once and not again,
\* no text was extracted, no chunk was planned, no generation request was made, the
\* exception on its way is the connectivity error, and the summary of the ended run,
\* as set by the except branch and as finalized, has status error and that cause.
C24_HealthFailureIsImmediate ==
    HealthProbeFailed =>
        /\ run_probes = 1
        /\ run_extractions = 0
        /\ run_text = <<>>
        /\ run_chunks = <<>>
        /\ run_requests = <<>>
        /\ logger_entries = <<>>
        /\ output_written = <<>>
        /\ run_pc \in {"raised", "finally", "returned"}
        /\ run_exc = "ConnectionError"
        /\ run_pc \in {"finally", "returned"} =>
               /\ summary["status"] = "error"
               /\ summary["error_message"] = "ConnectionError"
        /\ run_pc = "returned" =>
               /\ Len(finalized) = 1
               /\ finalized[1]["status"] = "error"
               /\ finalized[1]["error_message"] = "ConnectionError"

C24_Witness == HealthProbeFailed /\ run_pc = "returned"

\* the chunk indices of the entries with the given status
RECURSIVE IndicesWithStatus(_, _)
IndicesWithStatus(entries, status) ==
    IF Len(entries) = 0 THEN <<>>
    ELSE (IF Head(entries).status = status THEN <<Head(entries).chunk_index>> ELSE <<>>)
             \o IndicesWithStatus(Tail(entries), status)

\* the guard of one of the steps of run_anonymization holds
RunCanStep ==
    \/ run_pc \in {"start", "connected", "extracted", "planned", "processed", "written",
                   "validated", "raised", "finally"}
    \/ run_pc = "processing" /\ pc_pos <= Len(run_chunks) + 1

\* C25: logger.finalize is called once on every run that has ended and not before
\* the end, and a run that has not ended can take a step; the finalized summary has
\* the chunk entries appended during the run, in order and unchanged, one entry other
\* than debug entries for each generation request; when an exception ended the run,
\* the finalized summary has status error and the exception's message.
C25_FinalizedOnceWithChunkLog ==
    /\ run_pc \notin {"unused", "returned"} => Len(finalized) = 0 /\ RunCanStep
    /\ run_pc = "returned" =>
           /\ Len(finalized) = 1
           /\ finalized[1]["chunks"] = logger_entries
           /\ Len(NonDebug(finalized[1]["chunks"])) = Len(run_requests)
           /\ \A k \in 1..Len(run_requests) :
                  NonDebug(finalized[1]["chunks"])[k].chunk_index = run_requests[k]
           /\ run_exc # "None" =>
                  /\ finalized[1]["status"] = "error"
                  /\ finalized[1]["error_message"] = run_exc

C25_Witness ==
    /\ run_pc = "returned"
    /\ run_exc \in {"RuntimeError", "AttributeError"}
    /\ Len(finalized) = 1
    /\ Len(finalized[1]["chunks"]) = 2

\* C26: the failed_chunks of the finalized summary are the indices of the chunks
\* whose generation failed during the run, in order, the chunk whose failure ended
\* the run under abort_on_failure included.
C26_SummaryListsEveryFailedChunk ==
    run_pc = "returned" =>
        finalized[1]["failed_chunks"] = IndicesWithStatus(logger_entries, "error")

SuspiciousFound ==
    /\ run_pc \in {"validated", "finally", "returned"}
    /\ run_exc = "None"
    /\ Len(detect_suspicious_edits(run_text, final_document, DefaultMaxItems).suspicious) > 0

\* C28: when detect_suspicious_edits finds edits, the run goes on to its normal end:
\* the final document was written once before the validation and is what was
\* merged, the summary's validation has status warn and lists the edits found, and
\* the run's own status, once set and as finalized, is success, not error, with the
\* output file named.
C28_SuspiciousEditsOnlyWarn ==
    SuspiciousFound =>
        /\ output_written = <<final_document>>
        /\ summary["validation"].status = "warn"
        /\ summary["validation"].issues =
               detect_suspicious_edits(run_text, final_document, DefaultMaxItems).suspicious
        /\ run_pc \in {"finally", "returned"} =>
               /\ summary["status"] = "success"
               /\ summary["output_file"] = "output_file"
               /\ "error_message" \notin DOMAIN summary
        /\ run_pc = "returned" =>
               /\ finalized[1]["status"] = "success"
               /\ finalized[1]["validation"].status = "warn"
               /\ Len(finalized[1]["validation"].issues) > 0

C28_Witness == SuspiciousFound /\ run_pc = "returned"

\* C29: in a finalized summary the run status is success or error and the validation
\* status is ok, warn or error: ok or warn when the run status is success, error when
\* the run status is error.
C29_FinalStatuses ==
    \A k \in 1..Len(finalized) :
        /\ finalized[k]["status"] \in {"success", "error"}
        /\ finalized[k]["validation"].status \in {"ok", "warn", "error"}
        /\ finalized[k]["status"] = "success" =>
               finalized[k]["validation"].status \in {"ok", "warn"}
        /\ finalized[k]["status"] = "error" => finalized[k]["validation"].status = "error"

\* ------------------------------------------------------------------ C35
\* C35: when build_chunks returned chunks for a text and merge_chunks is given, for
\* each chunk, the chunk's own text or the empty string, the merged document is the
\* text: the chunk texts concatenate to the text, every chunk's part was appended (no
\* chunk was skipped as overlapping) and each part is the chunk's text.
C35_UnchangedChunksMergeToText ==
    (plan_pc = "planned" /\ merge_pc = "merged") =>
        /\ merged.result = text
        /\ Concat([i \in 1..Len(m_chunks) |-> m_chunks[i].text]) = text
        /\ Accepted = 1..Len(m_chunks)
        /\ Len(merged.locals.merged_parts) = Len(m_chunks)
        /\ \A i \in 1..Len(m_chunks) : merged.locals.merged_parts[i] = m_chunks[i].text

C35_Witness ==
    /\ plan_pc = "planned"
    /\ merge_pc = "merged"
    /\ Len(m_chunks) >= 2
    /\ m_processed[1] = <<>>
    /\ m_processed[2] = m_chunks[2].text
    /\ Len(text) > 0

\* ------------------------------------------------------------------ C36
\* the elements of a sequence, as a set
Elements(s) == {s[k] : k \in 1..Len(s)}

ReturnedShape ==
    proc_pc = "returned" =>
        /\ Len(results) = Len(p_chunks)
        /\ \A k \in 1..Len(p_chunks) : p_chunks[k].index = k
        /\ \A j \in 1..Len(failed_chunks) :
               /\ failed_chunks[j] \in 1..Len(p_chunks)
               /\ j > 1 => failed_chunks[j - 1] < failed_chunks[j]
        /\ \A k \in 1..Len(results) : results[k] = <<>> <=> k \in Elements(failed_chunks)

SlotsKept ==
    proc_pc \in {"loop", "in_call"} =>
        /\ Len(results') = Len(results)
        /\ \A k \in 1..Len(results) : k < pos => results'[k] = results[k]
        /\ \A k \in 1..Len(results) : k > pos => results'[k] = <<>> /\ results[k] = <<>>
        /\ SubSeq(failed_chunks', 1, Len(failed_chunks)) = failed_chunks

\* C36: when process_chunks has returned, results has one slot per chunk, slot k for
\* the chunk of index k, failed_chunks is strictly increasing and holds only indices
\* of chunks, and a slot is empty exactly when its index is in failed_chunks; during
\* the loop no step changes the slot of a chunk already handled or writes the slot of
\* a chunk not yet reached, and failed_chunks only grows at its end.
C36_ResultsMatchFailures == []ReturnedShape /\ [][SlotsKept]_vars

C36_Witness ==
    /\ proc_pc = "returned"
    /\ Len(p_chunks) = 3
    /\ failed_chunks = <<1, 2>>
    /\ results[1] = <<>>
    /\ results[2] = <<>>
    /\ results[3] # <<>>

\* ------------------------------------------------------------------ C33
\* the run was given the example document and every chunk's response was the
\* transformer's
ScenarioRun ==
    /\ run_pc = "returned"
    /\ run_config.doc = ScenarioDoc
    /\ run_exc = "None"
    /\ \A i \in 1..Len(run_chunks) : run_processed[i] = StubTransform(run_chunks[i].text)

\* C33: the run on "Juan Pérez, DNI 30.123.456, vive en Av. Siempre Viva 742." with
\* the transformer that makes exactly the expected replacements ends with the final
\* text "[NOMBRE APELLIDO], [DOCUMENTO], vive en [DOMICILIO].", a length ratio below
\* 1 and validation status ok.
C33_ExampleEndToEnd ==
    ScenarioRun =>
        /\ final_document = ScenarioFinal
        /\ output_written = <<ScenarioFinal>>
        /\ finalized[1]["length_metrics"].ratio[1] < finalized[1]["length_metrics"].ratio[2]
        /\ finalized[1]["validation"].status = "ok"

\* ------------------------------------------------------ claims: anonymize_text
\* the keys of mapeo
MapeoKeys == {mapeo[k][1] : k \in 1..Len(mapeo)}

\* short occurs in long, whatever the case of the letters, and is shorter
ContainsName(long, short) ==
    /\ Len(short) < Len(long)
    /\ \E p \in 0..(Len(long) - Len(short)) : PatronMatchesAnywhere(long, short, p)

\* the text in which each whole-word occurrence of a candidate, the longest candidate
\* first at each position from left to right, is replaced as a unit by its tag, and
\* no inserted tag is looked at again
RECURSIVE ReplacedAsUnits(_, _)
ReplacedAsUnits(t, p) ==
    IF p >= Len(t) THEN <<>>
    ELSE LET hits == {k \in 1..Len(candidates) : PatronMatchesAt(t, candidates[k], p)}
         IN  IF hits = {}
             THEN <<t[p + 1]>> \o ReplacedAsUnits(t, p + 1)
             ELSE LET original == candidates[SetMin(hits)]
                  IN  ValueOf(mapeo, original) \o ReplacedAsUnits(t, p + Len(original))

\* the number of "[" in t
RECURSIVE OpenBrackets(_)
OpenBrackets(t) ==
    IF Len(t) = 0 THEN 0
    ELSE (IF Head(t) = "[" THEN 1 ELSE 0) + OpenBrackets(Tail(t))

\* C31: when a key of mapeo contains another key, the text anonymize_text returns is
\* the text in which every whole-word occurrence of a key, whatever its case, the
\* longer key before the shorter, is replaced as a unit by that key's tag: no
\* occurrence of the longer key is left partly replaced, and no tag is a hybrid.
C31_LongestFirstAsUnits ==
    (/\ anon_pc = "returned"
     /\ \E long \in MapeoKeys, short \in MapeoKeys : ContainsName(long, short))
        => texto_anonimizado = ReplacedAsUnits(a_text, 0)

\* the largest depth of brackets in t from depth d on
RECURSIVE BracketDepth(_, _)
BracketDepth(t, d) ==
    IF Len(t) = 0 THEN d
    ELSE LET e == IF Head(t) = "[" THEN d + 1 ELSE IF Head(t) = "]" THEN d - 1 ELSE d
         IN  Max(d, BracketDepth(Tail(t), e))

\* C38: while the replacement loop runs and when it has ended, the text holds no tag
\* inside another tag: the brackets of the inserted tags are never nested.
C38_TagsNeverNested ==
    anon_pc \in {"replacing", "returned"} => BracketDepth(texto_anonimizado, 0) <= 1

\* the persons listed under partes_proceso
Personas ==
    UNION {{entities_json.partes_proceso[k][2][i] :
               i \in 1..Len(entities_json.partes_proceso[k][2])} :
           k \in 1..Len(entities_json.partes_proceso)}

\* C37: when anonymize_text has returned, every person listed under partes_proceso is
\* a key of the returned mapeo and no whole-word occurrence of the person's name is
\* left in the returned text.
C37_CanonicalNameIsMapped ==
    anon_pc = "returned" =>
        \A persona \in Personas :
            /\ HasKey(mapeo, persona)
            /\ \A p \in 0..Len(texto_anonimizado) :
                   ~PatronMatchesAt(texto_anonimizado, persona, p)

\* ------------------------------------------------------------------ C32
\* the positions of t that lie in an occurrence of the placeholder of a recorded mask
PlaceholderPositions(t, ms) ==
    {q \in 0..(Len(t) - 1) :
        \E i \in 1..Len(ms) : \E p \in 0..q :
            /\ q < p + Len(ms[i].placeholder)
            /\ StartsWithAt(t, ms[i].placeholder, p)}

\* the matches the next pattern finds in masked
NextMatches == FindMatches(DEFAULT_PATTERNS[pattern_k + 1][1], masked, 0)

MasksIndexed ==
    /\ \A i \in 1..Len(masks) :
        /\ masks[i].id = i - 1
        /\ masks[i].placeholder = <<"[">> \o masks[i].label \o <<"_">> \o Decimal(i - 1) \o <<"]">>
    /\ \A i, k \in 1..Len(masks) : i # k => masks[i].placeholder # masks[k].placeholder

OneMaskPerSubstitution ==
    (mask_pc = "applying" /\ pattern_k' = pattern_k + 1) =>
        Len(masks') = Len(masks) + Len(NextMatches)

MatchesAvoidPlaceholders ==
    (mask_pc = "applying" /\ pattern_k' = pattern_k + 1) =>
        \A i \in 1..Len(NextMatches) :
            \A q \in NextMatches[i][1]..(NextMatches[i][2] - 1) :
                q \notin PlaceholderPositions(masked, masks)

\* C32: the masks pre_mask_text records have the ids 0, 1, ..., n-1 in the order of
\* their creation and pairwise distinct placeholders, every application of a pattern
\* adds one mask per substitution, and no match of a later pattern shares a character
\* with a placeholder an earlier pattern inserted.
C32_UniquelyIndexedPlaceholders ==
    /\ []MasksIndexed
    /\ [][OneMaskPerSubstitution]_vars
    /\ [][MatchesAvoidPlaceholders]_vars

\* the part of C32 without its last clause
C32_IndexedOnly == []MasksIndexed /\ [][OneMaskPerSubstitution]_vars

\* a later match that begins inside a placeholder
C32_NoMatchBeginsInside ==
    mask_pc = "applying" /\ pattern_k < Len(DEFAULT_PATTERNS) =>
        \A i \in 1..Len(NextMatches) :
            NextMatches[i][1] \notin PlaceholderPositions(masked, masks)

\* ------------------------------------------------------------------ C39
\* an iteration of the windowing loop that goes on to another one
LoopsAgain == split_pc = "loop" /\ split_pc' = "loop" /\ Len(split_chunks') > Len(split_chunks)

EachWindowAdvances == LoopsAgain => split_start' > split_start

\* the windows of the returned chunks cover the tokens 0 .. total
ChunksCoverTokens ==
    split_pc = "returned" =>
        \A k \in 0..(Len(split_spans) - 1) :
            \E i \in 1..Len(split_chunks) : split_chunks[i][4] <= k /\ k < split_chunks[i][5]

\* C39: split_with_overlap terminates for every text and every overlap_tokens >= 0,
\* also when overlap_tokens is at least the window size: every iteration of its loop
\* that is followed by another one has moved token_start forward, so the loop makes at
\* most one window per token, and the chunks returned cover every token.
C39_SplitTerminates ==
    /\ [][EachWindowAdvances]_vars
    /\ [](Len(split_chunks) <= Max(1, Len(split_spans)))
    /\ []ChunksCoverTokens

\* with an overlap smaller than the window the loop advances and the chunks cover
C39_SmallOverlapTerminates ==
    /\ [][(split_call.overlap_tokens < available_tokens) => EachWindowAdvances]_vars
    /\ []((split_pc # "called" /\ split_call.overlap_tokens < available_tokens)
            => Len(split_chunks) <= Max(1, Len(split_spans)))
    /\ []ChunksCoverTokens

\* ------------------------------------------------------------------ C34
\* the answer that reported the successful upload of file_id, if there is one
UploadedAt(file_id) ==
    {responses[i].at : i \in {k \in 1..Len(responses) :
        responses[k].op = "upload" /\ responses[k].file_id = file_id /\ responses[k].status = 200}}

\* the i-th answer is to a download of a file whose expiry had passed
LateDownload(i) ==
    /\ responses[i].op = "download"
    /\ \E at \in UploadedAt(responses[i].file_id) : responses[i].at > at + Hour

FirstLateDownload(i) ==
    /\ LateDownload(i)
    /\ \A k \in 1..(i - 1) : ~(LateDownload(k) /\ responses[k].file_id = responses[i].file_id)

\* an entry appears only with the answer of a successful upload and expires an hour later
CreatedByUploadOnly ==
    \A f \in FileIds :
        (f \notin DOMAIN processed_files /\ f \in DOMAIN processed_files') =>
            /\ responses' = Append(responses, Response("upload", f, 200, now))
            /\ processed_files'[f].expires_at = now + Hour

\* an entry disappears only in a download or a status request
EvictedOnAccessOnly ==
    \A f \in FileIds :
        (f \in DOMAIN processed_files /\ f \notin DOMAIN processed_files') =>
            /\ Len(responses') = Len(responses) + 1
            /\ responses'[Len(responses')].op \in {"download", "status"}
            /\ Expired(processed_files[f], now)
            /\ processed_files[f].output_path \notin disk'

LateDownloadNeverServes ==
    \A i \in 1..Len(responses) : LateDownload(i) => responses[i].status # 200

FirstLate410ThenAlways404 ==
    \A i \in 1..Len(responses) :
        LateDownload(i) => responses[i].status = (IF FirstLateDownload(i) THEN 410 ELSE 404)

LateDownloadEvicts ==
    (Len(responses) > 0 /\ LateDownload(Len(responses))) =>
        /\ responses[Len(responses)].file_id \notin DOMAIN processed_files
        /\ responses[Len(responses)].file_id \notin disk

\* a bounded cache holds fewer entries than the uploads it was given, once these are
\* more than its bound
CacheBounded == Cardinality(DOMAIN processed_files) < MaxUploads

\* C34: an entry of the result cache is created only by a successful upload and
\* expires one hour later; a download of a file id whose expiry has passed never
\* returns the file: the first one answers 410 and evicts the entry and its file,
\* every later one answers 404; entries are evicted only on access (download or
\* status), and the cache is bounded.
C34_LazyExpiringBoundedCache ==
    /\ [][CreatedByUploadOnly]_vars
    /\ [][EvictedOnAccessOnly]_vars
    /\ []LateDownloadNeverServes
    /\ []LateDownloadEvicts
    /\ []FirstLate410ThenAlways404
    /\ []CacheBounded

\* what holds of the cache: creation by upload only, eviction on access only, no
\* file served after its expiry, and a late download answers 410 when it finds the
\* entry and 404 when it does not
C34_LazyExpiry ==
    /\ [][CreatedByUploadOnly]_vars
    /\ [][EvictedOnAccessOnly]_vars
    /\ []LateDownloadNeverServes
    /\ []LateDownloadEvicts
    /\ [][\A f \in FileIds :
            (/\ Len(responses') = Len(responses) + 1
             /\ LateDownload(Len(responses))'
             /\ responses'[Len(responses')].file_id = f)
            => responses'[Len(responses')].status =
                    (IF f \in DOMAIN processed_files THEN 410 ELSE 404)]_vars

\* the late downloads answer 410 first and 404 afterwards
C34_First410Then404 == []FirstLate410ThenAlways404

\* the cache never holds as many entries as uploads were made
C34_CacheBounded == []CacheBounded

\* ------------------------------------------------------------------ C40
RunningWorkers == {w \in 1..Len(workers) : workers[w].pc = "running"}

IsPrefix(a, b) == Len(a) <= Len(b) /\ SubSeq(b, 1, Len(a)) = a

\* at most one worker runs, and only while run_in_progress is set
OneRunAtATime ==
    /\ Cardinality(RunningWorkers) <= 1
    /\ RunningWorkers # {} => run_in_progress

\* a call of _start_processing while run_in_progress is set changes nothing
StartIgnoredWhileRunning ==
    (run_in_progress /\ Len(start_log') > Len(start_log)) =>
        /\ start_log' = Append(start_log, "ignored")
        /\ UNCHANGED <<run_in_progress, start_button, log_queue, workers, emitted, consumed>>

\* the items of each run are consumed in the order of their emission, and its "done"
\* item is the last one emitted and so the last one consumed
ConsumedInOrder ==
    \A r \in 1..Len(workers) :
        /\ IsPrefix(consumed[r], emitted[r])
        /\ \A i \in 1..(Len(emitted[r]) - 1) : emitted[r][i].kind # "done"
        /\ Cardinality({i \in 1..Len(consumed[r]) : consumed[r][i].kind = "done"}) <= 1

\* run_in_progress is cleared, and the button enabled again, only by the step that
\* consumes a "done" item
ClearedByCompletionOnly ==
    ((run_in_progress /\ ~run_in_progress') \/ (start_button = "disabled" /\ start_button' = "normal")) =>
        /\ gui_pc = "draining"
        /\ Len(log_queue) > 0
        /\ Head(log_queue).kind = "done"
        /\ log_queue' = Tail(log_queue)
        /\ ~run_in_progress'
        /\ start_button' = "normal"
        /\ consumed'[Head(log_queue).run] = emitted[Head(log_queue).run]

\* C40: at most one worker thread runs at any time, a start request made while
\* run_in_progress is set is ignored, the foreground thread consumes the items of each
\* run in the order of their emission with the single "done" item after all others,
\* and only consuming the "done" item clears run_in_progress and enables the start
\* button again.
C40_OneRunOrderedMessages ==
    /\ []OneRunAtATime
    /\ []ConsumedInOrder
    /\ [][StartIgnoredWhileRunning]_vars
    /\ [][ClearedByCompletionOnly]_vars

\* a second run is under way after the first one was consumed to its end, and a start
\* request was ignored
C40_Witness ==
    /\ Len(workers) = 2
    /\ workers[2].pc = "running"
    /\ Len(emitted[1]) = 3
    /\ consumed[1] = emitted[1]
    /\ Len(emitted[2]) > 0
    /\ \E i \in 1..Len(start_log) : start_log[i] = "ignored"

====
